---- MODULE Spec2Model ----
(***************************************************************************)
(* Model of Mesh (src/lib/src/Base/Geom/Mesh.cxx): the vertex and simplex  *)
(* tables, the derived caches (spatial index, incidence map, per-simplex   *)
(* bounding boxes, memoized volume) and the operations that read or change *)
(* them.                                                                   *)
(*                                                                         *)
(* Conventions.  Scalars are exact integers.  A point is a sequence of     *)
(* coordinates.  Vertex and simplex indices are 0-based as in the code, so *)
(* vertex i is vertices_[i + 1].  A volume is carried as the integer       *)
(* numerator of a fraction whose denominator is 2 (the only denominator    *)
(* the 1D and 2D closed forms produce on integer coordinates).             *)
(***************************************************************************)
EXTENDS Integers, Sequences, FiniteSets, TLC

VARIABLES dimension_, vertices_, simplices_, tree_, verticesToSimplices_,
          lowerBoundingBoxSimplices_, upperBoundingBoxSimplices_,
          isAlreadyComputedVolume_, volume_, last,
          calls, numericalPrecision

vars == <<dimension_, vertices_, simplices_, tree_, verticesToSimplices_,
          lowerBoundingBoxSimplices_, upperBoundingBoxSimplices_,
          isAlreadyComputedVolume_, volume_, last,
          calls, numericalPrecision>>

mesh == <<dimension_, vertices_, simplices_, tree_, verticesToSimplices_,
          lowerBoundingBoxSimplices_, upperBoundingBoxSimplices_,
          isAlreadyComputedVolume_, volume_>>

(* calls holds the calls that run concurrently on the mesh, one per caller *)
(* thread: the position each has reached in its code and its locals; it   *)
(* is empty while the mesh is used by one caller at a time.                *)
(* numericalPrecision is the process-wide PlatformInfo numerical precision *)
(* that the text export changes and restores.                              *)

(*************************** bounds of the model ***************************)
MaxCoord == 1
MaxVertices == 2
MaxSimplices == 1

(* SpecFunc::MaxScalar, the sentinel of the scans: larger than any value   *)
(* the bounded coordinates can produce.                                    *)
MaxScalar == 1000

Coords == 0 .. MaxCoord
Points(d) == [1 .. d -> Coords]
Samples(d) == UNION {[1 .. n -> Points(d)] : n \in 0 .. MaxVertices}
(* A simplex lists dimension + 1 distinct vertex indices, in any order      *)
SimplexTuples(d) ==
  {t \in [1 .. (d + 1) -> 0 .. (MaxVertices - 1)] :
     \A j, k \in 1 .. (d + 1) : t[j] = t[k] => j = k}
IndicesCollections(d) == UNION {[1 .. m -> SimplexTuples(d)] : m \in 0 .. MaxSimplices}

(******************************* helpers ***********************************)
Abs(x) == IF x < 0 THEN -x ELSE x

RECURSIVE SeqSum(_)
SeqSum(s) == IF s = <<>> THEN 0 ELSE Head(s) + SeqSum(Tail(s))

(* The observation left by the last call: its name, its argument, the      *)
(* value returned, the error raised, and what the caller could observe     *)
(* just before the call (pre).                                             *)
NoPre == [memo |-> FALSE, cached |-> FALSE]
Obs(op, arg, ret, err, pre) ==
  [op |-> op, arg |-> arg, ret |-> ret, err |-> err, msg |-> <<>>, pre |-> pre]
(* A call that throws: no value, the error kind and what its message names *)
Thrown(op, arg, err, msg) ==
  [op |-> op, arg |-> arg, ret |-> <<>>, err |-> err, msg |-> msg, pre |-> NoPre]

(* The numerical precisions the platform is run with                       *)
Precisions == {6, 17}

(* A mesh used by one caller at a time, the precision at its default       *)
Quiescent == calls = <<>> /\ numericalPrecision = 6

(* A call made while no concurrent call is in flight, and that leaves the  *)
(* platform's precision alone                                              *)
Sequential == UNCHANGED <<calls, numericalPrecision>>

SetMin(S) == CHOOSE x \in S : \A y \in S : x <= y
SetMax(S) == CHOOSE x \in S : \A y \in S : x >= y

getVerticesNumber == Len(vertices_)
getSimplicesNumber == Len(simplices_)

(* Indices::check(n) on every simplex plus the size test of checkValidity  *)
checkValidityOf(d, vertices, simplices) ==
  \A i \in 1 .. Len(simplices) :
    /\ Len(simplices[i]) = d + 1
    /\ \A j \in 1 .. Len(simplices[i]) : simplices[i][j] < Len(vertices)

isValid == checkValidityOf(dimension_, vertices_, simplices_)

(***************************** VolumeEngine ********************************)
(* Mesh::computeSimplexVolume, 1D and 2D closed forms; the value is the    *)
(* numerator over 2.                                                       *)
computeSimplexVolumeOf(d, vertices, simplices, index) ==
  IF d = 1
  THEN LET x0 == vertices[simplices[index + 1][1] + 1][1]
           x1 == vertices[simplices[index + 1][2] + 1][1]
       IN 2 * Abs(x1 - x0)
  ELSE LET x0 == vertices[simplices[index + 1][1] + 1][1]
           y0 == vertices[simplices[index + 1][1] + 1][2]
           x1 == vertices[simplices[index + 1][2] + 1][1]
           y1 == vertices[simplices[index + 1][2] + 1][2]
           x2 == vertices[simplices[index + 1][3] + 1][1]
           y2 == vertices[simplices[index + 1][3] + 1][2]
       IN Abs((x2 - x0) * (y1 - y0) - (x0 - x1) * (y2 - y0))

computeSimplexVolume(index) == computeSimplexVolumeOf(dimension_, vertices_, simplices_, index)

(* A direct call of Mesh::computeSimplexVolume(index)                      *)
computeSimplexVolumeCall(index) ==
  /\ isValid
  /\ IF index >= getSimplicesNumber
     THEN last' = Thrown("computeSimplexVolume", index, "InvalidArgument",
                         [index |-> index, bound |-> getSimplicesNumber])
     ELSE last' = Obs("computeSimplexVolume", index, computeSimplexVolume(index), "none", NoPre)
  /\ UNCHANGED mesh

(* VolumeFunctor::operator() over the block [lo, hi)                       *)
RECURSIVE VolumeFunctorRange(_, _, _, _, _)
VolumeFunctorRange(d, vertices, simplices, lo, hi) ==
  IF lo >= hi THEN 0
  ELSE computeSimplexVolumeOf(d, vertices, simplices, lo)
       + VolumeFunctorRange(d, vertices, simplices, lo + 1, hi)

(* TBB::ParallelReduce(0, getSimplicesNumber(), functor): two blocks cut   *)
(* at split, joined by VolumeFunctor::join                                 *)
VolumeReduce(d, vertices, simplices, split) ==
  VolumeFunctorRange(d, vertices, simplices, 0, split)
  + VolumeFunctorRange(d, vertices, simplices, split, Len(simplices))

(* The sum of the per-simplex volumes of a mesh                            *)
SumOfSimplexVolumes(d, vertices, simplices) ==
  VolumeFunctorRange(d, vertices, simplices, 0, Len(simplices))

(****************************** MeshStore **********************************)
PreOf == [memo |-> isAlreadyComputedVolume_, cached |-> Len(verticesToSimplices_) > 0]

(* setVertices without the reset of the incidence map and of the boxes     *)
setVertices_keepIncidence(vertices) ==
  /\ isAlreadyComputedVolume_' = FALSE
  /\ vertices_' = vertices
  /\ last' = Obs("setVertices", <<>>, <<>>, "none", PreOf)
  /\ UNCHANGED <<dimension_, simplices_, tree_, volume_, verticesToSimplices_,
                 lowerBoundingBoxSimplices_, upperBoundingBoxSimplices_>>

setVertices(vertices) ==
  /\ isAlreadyComputedVolume_' = FALSE
  /\ vertices_' = vertices
  /\ verticesToSimplices_' = <<>>
  /\ lowerBoundingBoxSimplices_' = <<>>
  /\ upperBoundingBoxSimplices_' = <<>>
  /\ last' = Obs("setVertices", <<>>, <<>>, "none", PreOf)
  /\ UNCHANGED <<dimension_, simplices_, tree_, volume_>>

(* setVertex without the reset of the validity flag                        *)
setVertex_keepFlag(index, vertex) ==
  /\ IF index < getVerticesNumber
     THEN /\ vertices_' = [vertices_ EXCEPT ![index + 1] = vertex]
          /\ last' = Obs("setVertex", index, <<>>, "none", PreOf)
     ELSE /\ vertices_' = vertices_
          /\ \E e \in {"OutOfBound", "undefined"} :
               last' = Obs("setVertex", index, <<>>, e, PreOf)
  /\ UNCHANGED <<dimension_, simplices_, tree_, verticesToSimplices_,
                 lowerBoundingBoxSimplices_, upperBoundingBoxSimplices_,
                 isAlreadyComputedVolume_, volume_>>

(* vertices_[index] = vertex is an unchecked write: past the end of the    *)
(* table it either raises in a bound-checking build or is undefined; the   *)
(* flag is cleared before it in both cases.                                *)
setVertex(index, vertex) ==
  /\ isAlreadyComputedVolume_' = FALSE
  /\ IF index < getVerticesNumber
     THEN /\ vertices_' = [vertices_ EXCEPT ![index + 1] = vertex]
          /\ last' = Obs("setVertex", index, <<>>, "none", PreOf)
     ELSE /\ vertices_' = vertices_
          /\ \E e \in {"OutOfBound", "undefined"} :
               last' = Obs("setVertex", index, <<>>, e, PreOf)
  /\ UNCHANGED <<dimension_, simplices_, tree_, verticesToSimplices_,
                 lowerBoundingBoxSimplices_, upperBoundingBoxSimplices_, volume_>>

(* setSimplices without the comparison with the current value             *)
setSimplices_alwaysReset(simplices) ==
  /\ simplices_' = simplices
  /\ verticesToSimplices_' = <<>>
  /\ lowerBoundingBoxSimplices_' = <<>>
  /\ upperBoundingBoxSimplices_' = <<>>
  /\ last' = Obs("setSimplices", simplices, ~(simplices = simplices_), "none", PreOf)
  /\ UNCHANGED <<dimension_, vertices_, tree_, isAlreadyComputedVolume_, volume_>>

setSimplices(simplices) ==
  /\ IF ~(simplices = simplices_)
     THEN /\ simplices_' = simplices
          /\ verticesToSimplices_' = <<>>
          /\ lowerBoundingBoxSimplices_' = <<>>
          /\ upperBoundingBoxSimplices_' = <<>>
     ELSE UNCHANGED <<simplices_, verticesToSimplices_,
                      lowerBoundingBoxSimplices_, upperBoundingBoxSimplices_>>
  /\ last' = Obs("setSimplices", simplices, ~(simplices = simplices_), "none", PreOf)
  /\ UNCHANGED <<dimension_, vertices_, tree_, isAlreadyComputedVolume_, volume_>>

(* Mesh::computeVolume.  The caller's precondition of the volume queries   *)
(* is a valid mesh (no eager validation in the code).                      *)
computeVolume(split) ==
  /\ isValid
  /\ isAlreadyComputedVolume_' = TRUE
  /\ last' = Obs("computeVolume", <<>>,
                 VolumeReduce(dimension_, vertices_, simplices_, split), "none", NoPre)
  /\ UNCHANGED <<dimension_, vertices_, simplices_, tree_, verticesToSimplices_,
                 lowerBoundingBoxSimplices_, upperBoundingBoxSimplices_, volume_>>

(* The value getVolume() returns in the current state                      *)
getVolumeValue(split) ==
  IF ~isAlreadyComputedVolume_
  THEN VolumeReduce(dimension_, vertices_, simplices_, split)
  ELSE volume_

getVolume(split) ==
  /\ isValid
  /\ volume_' = getVolumeValue(split)
  /\ isAlreadyComputedVolume_' = TRUE
  /\ last' = Obs("getVolume", <<>>, getVolumeValue(split), "none", NoPre)
  /\ UNCHANGED <<dimension_, vertices_, simplices_, tree_, verticesToSimplices_,
                 lowerBoundingBoxSimplices_, upperBoundingBoxSimplices_>>

(* getVertex with > in place of >= in the range test                       *)
getVertex_offByOne(index) ==
  /\ IF index > getVerticesNumber
     THEN last' = Thrown("getVertex", index, "InvalidArgument",
                         [index |-> index, bound |-> getVerticesNumber])
     ELSE last' = Obs("getVertex", index,
                      IF index < getVerticesNumber THEN vertices_[index + 1] ELSE <<>>,
                      "none", NoPre)
  /\ UNCHANGED mesh

(* Mesh::getVertex and Mesh::getSimplex                                    *)
getVertex(index) ==
  /\ IF index >= getVerticesNumber
     THEN last' = Thrown("getVertex", index, "InvalidArgument",
                         [index |-> index, bound |-> getVerticesNumber])
     ELSE last' = Obs("getVertex", index, vertices_[index + 1], "none", NoPre)
  /\ UNCHANGED mesh

getSimplex(index) ==
  /\ IF index >= getSimplicesNumber
     THEN last' = Thrown("getSimplex", index, "InvalidArgument",
                         [index |-> index, bound |-> getSimplicesNumber])
     ELSE last' = Obs("getSimplex", index, simplices_[index + 1], "none", NoPre)
  /\ UNCHANGED mesh

(****************************** SpatialIndex *******************************)
normSquare(p) == SeqSum([k \in 1 .. Len(p) |-> p[k] * p[k]])
Minus(p, q) == [k \in 1 .. Len(p) |-> p[k] - q[k]]

(* KDTree(vertices_): the index keeps the points it was built on; a tree   *)
(* built on no point, like the default one, is empty.                      *)
KDTreeOf(vertices) == vertices
KDTreeIsEmpty(tree) == Len(tree) = 0
(* KDTree::getNearestNeighbourIndex: an index of the tree's points at      *)
(* minimal distance of the query point (no tie-breaking rule is known)     *)
KDTreeNearestNeighbourIndices(tree, point) ==
  {i \in 0 .. (Len(tree) - 1) :
     \A j \in 0 .. (Len(tree) - 1) :
       normSquare(Minus(point, tree[i + 1])) <= normSquare(Minus(point, tree[j + 1]))}

computeKDTree ==
  /\ tree_' = KDTreeOf(vertices_)
  /\ last' = Obs("computeKDTree", <<>>, <<>>, "none", NoPre)
  /\ UNCHANGED <<dimension_, vertices_, simplices_, verticesToSimplices_,
                 lowerBoundingBoxSimplices_, upperBoundingBoxSimplices_,
                 isAlreadyComputedVolume_, volume_>>

(* NearestFunctor: the state of a functor, its scan of the block [lo, hi)  *)
(* and its join                                                            *)
NearestFunctorInit == [minDistance_ |-> MaxScalar, minIndex_ |-> 0]

RECURSIVE NearestFunctorRange(_, _, _, _, _)
NearestFunctorRange(vertices, point, lo, hi, f) ==
  IF lo >= hi THEN f
  ELSE LET d == normSquare(Minus(point, vertices[lo + 1]))
       IN NearestFunctorRange(vertices, point, lo + 1, hi,
            IF d < f.minDistance_ THEN [minDistance_ |-> d, minIndex_ |-> lo] ELSE f)

(* join replacing on ties as well                                          *)
NearestFunctorJoin_nonStrict(f, other) ==
  IF other.minDistance_ <= f.minDistance_ THEN other ELSE f

NearestFunctorJoin(f, other) ==
  IF other.minDistance_ < f.minDistance_ THEN other ELSE f

(* TBB::ParallelReduce(0, getVerticesNumber(), functor) with the range cut *)
(* in two blocks at split                                                  *)
NearestReduce(vertices, point, split) ==
  NearestFunctorJoin(
    NearestFunctorRange(vertices, point, 0, split, NearestFunctorInit),
    NearestFunctorRange(vertices, point, split, Len(vertices), NearestFunctorInit)).minIndex_

BruteForceNearestIndices(vertices, point) ==
  {NearestReduce(vertices, point, split) : split \in 0 .. Len(vertices)}

(* The indices Mesh::getNearestVertexIndex(point) can return               *)
NearestVertexIndices(point) ==
  IF ~KDTreeIsEmpty(tree_) THEN KDTreeNearestNeighbourIndices(tree_, point)
  ELSE BruteForceNearestIndices(vertices_, point)

(* getNearestVertexIndex building the spatial index when it is empty       *)
getNearestVertexIndex_lazyTree(point) ==
  /\ IF Len(point) # dimension_
     THEN /\ last' = Thrown("getNearestVertexIndex", point, "InvalidArgument", <<>>)
          /\ tree_' = tree_
     ELSE /\ tree_' = IF KDTreeIsEmpty(tree_) THEN KDTreeOf(vertices_) ELSE tree_
          /\ \E index \in NearestVertexIndices(point) :
               last' = Obs("getNearestVertexIndex", point, index, "none", NoPre)
  /\ UNCHANGED <<dimension_, vertices_, simplices_, verticesToSimplices_,
                 lowerBoundingBoxSimplices_, upperBoundingBoxSimplices_,
                 isAlreadyComputedVolume_, volume_>>

getNearestVertexIndex(point) ==
  /\ IF Len(point) # dimension_
     THEN last' = Thrown("getNearestVertexIndex", point, "InvalidArgument", <<>>)
     ELSE \E index \in NearestVertexIndices(point) :
            last' = Obs("getNearestVertexIndex", point, index, "none", NoPre)
  /\ UNCHANGED mesh

(* TBB::ParallelReduce(0, getVerticesNumber(), functor) with the range cut *)
(* in three contiguous blocks [0, s1), [s1, s2), [s2, n), each scanned by  *)
(* a functor made by the splitting constructor, and the joins done left    *)
(* pair first or right pair first, the left functor always the receiver    *)
NearestReduce3(vertices, point, s1, s2, leftFirst) ==
  LET a == NearestFunctorRange(vertices, point, 0, s1, NearestFunctorInit)
      b == NearestFunctorRange(vertices, point, s1, s2, NearestFunctorInit)
      c == NearestFunctorRange(vertices, point, s2, Len(vertices), NearestFunctorInit)
  IN IF leftFirst
     THEN NearestFunctorJoin(NearestFunctorJoin(a, b), c).minIndex_
     ELSE NearestFunctorJoin(a, NearestFunctorJoin(b, c)).minIndex_

(* Mesh::getNearestVertexIndex on an empty spatial index, the schedule of  *)
(* the reduction made explicit and recorded                                *)
getNearestVertexIndexReduce(point, s1, s2, leftFirst) ==
  /\ KDTreeIsEmpty(tree_)
  /\ IF Len(point) # dimension_
     THEN last' = Thrown("getNearestVertexIndex", point, "InvalidArgument", <<>>)
     ELSE last' = Obs("getNearestVertexIndex", point,
                      NearestReduce3(vertices_, point, s1, s2, leftFirst), "none",
                      [cuts |-> <<s1, s2>>, leftFirst |-> leftFirst])
  /\ UNCHANGED mesh

(***************************** IncidenceCache ******************************)
(* The entries verticesToSimplices_[v].add(i) appends for simplex i        *)
Occurrences(simplex, v, i) ==
  [n \in 1 .. Cardinality({j \in 1 .. Len(simplex) : simplex[j] = v}) |-> i]

RECURSIVE IncidenceList(_, _, _)
IncidenceList(simplices, v, i) ==
  IF i >= Len(simplices) THEN <<>>
  ELSE Occurrences(simplices[i + 1], v, i) \o IncidenceList(simplices, v, i + 1)

(* the map built with the vertex numbered from 1                           *)
BuildVerticesToSimplices_offByOne(vertices, simplices) ==
  [v \in 1 .. Len(vertices) |-> IncidenceList(simplices, v, 0)]

(* The three tables the single pass of getVerticesToSimplicesMap builds    *)
BuildVerticesToSimplices(vertices, simplices) ==
  [v \in 1 .. Len(vertices) |-> IncidenceList(simplices, v - 1, 0)]

BuildLowerBoundingBox(d, vertices, simplices) ==
  [i \in 1 .. Len(simplices) |->
     [k \in 1 .. d |->
        SetMin({MaxScalar} \cup {vertices[simplices[i][j] + 1][k] : j \in 1 .. Len(simplices[i])})]]

BuildUpperBoundingBox(d, vertices, simplices) ==
  [i \in 1 .. Len(simplices) |->
     [k \in 1 .. d |->
        SetMax({-MaxScalar} \cup {vertices[simplices[i][j] + 1][k] : j \in 1 .. Len(simplices[i])})]]

(* The cache part of getVerticesToSimplicesMap: early return when the map  *)
(* is populated, else the build                                            *)
PopulateIncidence ==
  IF Len(verticesToSimplices_) > 0
  THEN UNCHANGED <<verticesToSimplices_, lowerBoundingBoxSimplices_, upperBoundingBoxSimplices_>>
  ELSE /\ verticesToSimplices_' = BuildVerticesToSimplices(vertices_, simplices_)
       /\ lowerBoundingBoxSimplices_' = BuildLowerBoundingBox(dimension_, vertices_, simplices_)
       /\ upperBoundingBoxSimplices_' = BuildUpperBoundingBox(dimension_, vertices_, simplices_)

getVerticesToSimplicesMap ==
  /\ isValid
  /\ PopulateIncidence
  /\ last' = Obs("getVerticesToSimplicesMap", <<>>, verticesToSimplices_', "none", NoPre)
  /\ UNCHANGED <<dimension_, vertices_, simplices_, tree_, isAlreadyComputedVolume_, volume_>>

(* Mesh::computeWeights: the weights are returned as numerators over       *)
(* 2 * (dimension_ + 1)                                                    *)
computeWeights ==
  /\ isValid
  /\ PopulateIncidence
  /\ last' = Obs("computeWeights", <<>>,
                 [i \in 1 .. getVerticesNumber |->
                    SeqSum([j \in 1 .. Len(verticesToSimplices_'[i]) |->
                              computeSimplexVolume(verticesToSimplices_'[i][j])])],
                 "none", NoPre)
  /\ UNCHANGED <<dimension_, vertices_, simplices_, tree_, isAlreadyComputedVolume_, volume_>>

(**************************** ContainmentEngine ****************************)
(* Mesh::buildSimplexMatrix: vertex coordinates as columns, a row of ones  *)
buildSimplexMatrix(index) ==
  [i \in 1 .. (dimension_ + 1) |->
     [j \in 1 .. (dimension_ + 1) |->
        IF i <= dimension_ THEN vertices_[simplices_[index + 1][j] + 1][i] ELSE 1]]

Minor(M, j) ==
  [r \in 1 .. (Len(M) - 1) |->
     [c \in 1 .. (Len(M) - 1) |-> M[r + 1][IF c < j THEN c ELSE c + 1]]]

RECURSIVE Det(_)
Det(M) ==
  IF Len(M) = 1 THEN M[1][1]
  ELSE SeqSum([j \in 1 .. Len(M) |->
                 (IF j % 2 = 1 THEN 1 ELSE -1) * M[1][j] * Det(Minor(M, j))])

(* SquareMatrix::solveLinearSystem(v): the exact solution by Cramer's rule *)
(* as numerators num over the common denominator den; den = 0 is the       *)
(* singular matrix, on which the solve fails.                              *)
solveLinearSystem(M, v) ==
  [num |-> [j \in 1 .. Len(M) |->
              Det([r \in 1 .. Len(M) |-> [c \in 1 .. Len(M) |-> IF c = j THEN v[r] ELSE M[r][c]]])],
   den |-> Det(M)]

(* coordinates[i] < 0.0 || coordinates[i] > 1.0 for no i                   *)
CoordinatesInUnitInterval(a) ==
  \A j \in 1 .. Len(a.num) :
    IF a.den > 0 THEN 0 <= a.num[j] /\ a.num[j] <= a.den
    ELSE a.den <= a.num[j] /\ a.num[j] <= 0

(* Mesh::checkPointInSimplexWithCoordinates against the given bounding-box *)
(* tables: "true", "false", or the error raised                            *)
checkPointInSimplex(point, index, lowerBB, upperBB) ==
  IF /\ Len(lowerBB) > 0
     /\ \E i \in 1 .. dimension_ :
          \/ point[i] < lowerBB[index + 1][i]
          \/ point[i] > upperBB[index + 1][i]
  THEN "false"
  ELSE IF index >= getSimplicesNumber THEN "InvalidArgument"
  ELSE LET coordinates == solveLinearSystem(buildSimplexMatrix(index), Append(point, 1))
       IN IF coordinates.den = 0 THEN "NotDefined"
          ELSE IF CoordinatesInUnitInterval(coordinates) THEN "true" ELSE "false"

(* A loop "if (checkPointInSimplex(point, c[i])) return true" over the     *)
(* list c: "true", "false" when the loop ends, or the error that ends it   *)
RECURSIVE ScanSimplices(_, _, _, _)
ScanSimplices(point, c, lowerBB, upperBB) ==
  IF c = <<>> THEN "false"
  ELSE LET r == checkPointInSimplex(point, Head(c), lowerBB, upperBB)
       IN IF r = "false" THEN ScanSimplices(point, Tail(c), lowerBB, upperBB) ELSE r

(* Interval(getLowerBound(), getUpperBound()).contains(point)              *)
getLowerBound == [k \in 1 .. dimension_ |-> SetMin({vertices_[v][k] : v \in 1 .. Len(vertices_)})]
getUpperBound == [k \in 1 .. dimension_ |-> SetMax({vertices_[v][k] : v \in 1 .. Len(vertices_)})]
IntervalContains(lower, upper, point) ==
  \A k \in 1 .. Len(point) : lower[k] <= point[k] /\ point[k] <= upper[k]

(* The second and third steps of Mesh::contains on the candidate list c    *)
ContainsScan(point, c, lowerBB, upperBB) ==
  LET r == ScanSimplices(point, c, lowerBB, upperBB)
  IN IF r = "false"
     THEN ScanSimplices(point, [i \in 1 .. getSimplicesNumber |-> i - 1], lowerBB, upperBB)
     ELSE r

ContainsResult(point, r) ==
  IF r \in {"true", "false"}
  THEN Obs("contains", point, r = "true", "none", NoPre)
  ELSE Thrown("contains", point, r, <<>>)

(* Mesh::contains.  The callers' preconditions are a valid mesh and a      *)
(* non-empty vertex table.  verticesToSimplices_[nearestIndex] is an       *)
(* unchecked read: past the end of the map the call is undefined, and      *)
(* either stops or goes on with whatever list it read.                     *)
contains(point, nearestIndex) ==
  /\ isValid
  /\ getVerticesNumber > 0
  /\ IF ~IntervalContains(getLowerBound, getUpperBound, point)
     THEN /\ last' = Obs("contains", point, FALSE, "none", NoPre)
          /\ UNCHANGED <<verticesToSimplices_, lowerBoundingBoxSimplices_,
                         upperBoundingBoxSimplices_>>
     ELSE /\ PopulateIncidence
          /\ IF nearestIndex < Len(verticesToSimplices_')
             THEN last' = ContainsResult(point,
                            ContainsScan(point, verticesToSimplices_'[nearestIndex + 1],
                                         lowerBoundingBoxSimplices_', upperBoundingBoxSimplices_'))
             ELSE \/ last' = Thrown("contains", point, "undefined", <<>>)
                  \/ \E c \in {<<>>} \cup {<<s>> : s \in 0 .. (getSimplicesNumber - 1)} :
                       last' = ContainsResult(point,
                                 ContainsScan(point, c, lowerBoundingBoxSimplices_',
                                              upperBoundingBoxSimplices_'))
  /\ UNCHANGED <<dimension_, vertices_, simplices_, tree_, isAlreadyComputedVolume_, volume_>>

(* The loop of getNearestVertexAndSimplexIndicesWithCoordinates over the   *)
(* candidate list c: the first candidate checkPointInSimplexWithCoordinates *)
(* accepts, "false" when the loop ends, or the error that ends it          *)
RECURSIVE FirstContaining(_, _, _, _)
FirstContaining(point, c, lowerBB, upperBB) ==
  IF c = <<>> THEN [r |-> "false", simplex |-> 0]
  ELSE LET r == checkPointInSimplex(point, Head(c), lowerBB, upperBB)
       IN IF r = "false" THEN FirstContaining(point, Tail(c), lowerBB, upperBB)
          ELSE [r |-> r, simplex |-> Head(c)]

(* What the call returns or throws for the scan result f                   *)
LocateResult(point, nearestIndex, f) ==
  IF f.r = "true"
  THEN Obs("getNearestVertexAndSimplexIndicesWithCoordinates", point,
           [indices |-> <<nearestIndex, f.simplex>>,
            coordinates |-> solveLinearSystem(buildSimplexMatrix(f.simplex), Append(point, 1))],
           "none", NoPre)
  ELSE IF f.r = "false"
  THEN Obs("getNearestVertexAndSimplexIndicesWithCoordinates", point,
           [indices |-> <<nearestIndex>>, coordinates |-> <<>>], "none", NoPre)
  ELSE Thrown("getNearestVertexAndSimplexIndicesWithCoordinates", point, f.r, <<>>)

(* Mesh::getNearestVertexAndSimplexIndicesWithCoordinates, under the same  *)
(* callers' preconditions as contains; verticesToSimplices_[nearestIndex]  *)
(* is the same unchecked read.                                             *)
getNearestVertexAndSimplexIndicesWithCoordinates(point, nearestIndex) ==
  /\ isValid
  /\ getVerticesNumber > 0
  /\ PopulateIncidence
  /\ IF nearestIndex < Len(verticesToSimplices_')
     THEN last' = LocateResult(point, nearestIndex,
                    FirstContaining(point, verticesToSimplices_'[nearestIndex + 1],
                                    lowerBoundingBoxSimplices_', upperBoundingBoxSimplices_'))
     ELSE \/ last' = Thrown("getNearestVertexAndSimplexIndicesWithCoordinates", point,
                            "undefined", <<>>)
          \/ \E c \in {<<>>} \cup {<<s>> : s \in 0 .. (getSimplicesNumber - 1)} :
               last' = LocateResult(point, nearestIndex,
                         FirstContaining(point, c, lowerBoundingBoxSimplices_',
                                         upperBoundingBoxSimplices_'))
  /\ UNCHANGED <<dimension_, vertices_, simplices_, tree_, isAlreadyComputedVolume_, volume_>>

(******************************* validity **********************************)
(* Indices::check(bound): every value of the list is below bound           *)
IndicesCheck(simplex, bound) == \A j \in 1 .. Len(simplex) : simplex[j] < bound

(* the body of the loop of checkValidity without the size test             *)
simplexError_noSizeTest(d, vertices, simplex) ==
  IF ~IndicesCheck(simplex, Len(vertices)) THEN "InvalidArgument"
  ELSE "none"

(* The body of the loop of Mesh::checkValidity on one simplex: the error   *)
(* it throws, or "none"                                                    *)
simplexError(d, vertices, simplex) ==
  IF Len(simplex) # d + 1 THEN "InvalidArgument"
  ELSE IF ~IndicesCheck(simplex, Len(vertices)) THEN "InvalidArgument"
  ELSE "none"

(* The loop of Mesh::checkValidity from simplex i on: the first simplex    *)
(* that makes it throw and the error, or "none" when it runs to the end    *)
RECURSIVE checkValidityFrom(_, _, _, _)
checkValidityFrom(d, vertices, simplices, i) ==
  IF i >= Len(simplices) THEN [err |-> "none", simplex |-> i]
  ELSE IF simplexError(d, vertices, simplices[i + 1]) # "none"
       THEN [err |-> simplexError(d, vertices, simplices[i + 1]), simplex |-> i]
       ELSE checkValidityFrom(d, vertices, simplices, i + 1)

(* A direct call of Mesh::checkValidity()                                  *)
checkValidityCall ==
  /\ LET r == checkValidityFrom(dimension_, vertices_, simplices_, 0)
     IN IF r.err = "none"
        THEN last' = Obs("checkValidity", <<>>, <<>>, "none", NoPre)
        ELSE last' = Thrown("checkValidity", <<>>, r.err, [simplex |-> r.simplex])
  /\ UNCHANGED mesh

(* A call of Mesh::isValid(): checkValidity() inside try, every Exception  *)
(* caught and turned into false                                            *)
isValidCall ==
  /\ last' = Obs("isValid", <<>>,
                 checkValidityFrom(dimension_, vertices_, simplices_, 0).err = "none",
                 "none", NoPre)
  /\ UNCHANGED mesh

(******************************* Renderer3D ********************************)
(* Conventions of the renderer.  A rotation is a sequence of rows.  The    *)
(* transformed vertices are carried as integer numerators over VisuScale,  *)
(* the number of vertices when the vertices are centred on their mean and  *)
(* 1 when they are not; a drawn face is carried as numerators over         *)
(* 6 * VisuScale; the shrink factor rho as the numerator rho2 over 2.      *)
Transpose(R) == [i \in 1 .. Len(R) |-> [j \in 1 .. Len(R) |-> R[j][i]]]
MatMul(A, B) ==
  [i \in 1 .. Len(A) |-> [j \in 1 .. Len(A) |->
     SeqSum([k \in 1 .. Len(A) |-> A[i][k] * B[k][j]])]]
IdentityMatrix(n) == [i \in 1 .. n |-> [j \in 1 .. n |-> IF i = j THEN 1 ELSE 0]]
isDiagonal(R) == \A i, j \in 1 .. Len(R) : i # j => R[i][j] = 0

(* (rotation * rotation.transpose() - IdentityMatrix(3)).norm() > 1e-5 on  *)
(* integer entries                                                         *)
isRotation(R) == MatMul(R, Transpose(R)) = IdentityMatrix(3)

(* Matrix::genSampleProd: the rotation applied to every point of a sample  *)
genSampleProd(R, sample) ==
  [v \in 1 .. Len(sample) |->
     [i \in 1 .. Len(R) |-> SeqSum([k \in 1 .. Len(R) |-> R[i][k] * sample[v][k]])]]

(* Sample::computeMean times the size of the sample                        *)
SampleSum(sample, d) ==
  [k \in 1 .. d |-> SeqSum([v \in 1 .. Len(sample) |-> sample[v][k]])]

VisuScale(rotation) == IF isDiagonal(rotation) THEN 1 ELSE getVerticesNumber

(* visuVertices: vertices_ itself under a diagonal rotation, else          *)
(* rotation * (vertices_ - center) + center with center the mean           *)
VisuVertices(rotation) ==
  IF isDiagonal(rotation) THEN vertices_
  ELSE LET sum == SampleSum(vertices_, dimension_)
           centred == [v \in 1 .. getVerticesNumber |->
                         [k \in 1 .. dimension_ |-> getVerticesNumber * vertices_[v][k] - sum[k]]]
           turned == genSampleProd(rotation, centred)
       IN [v \in 1 .. getVerticesNumber |-> [k \in 1 .. dimension_ |-> turned[v][k] + sum[k]]]

(* std::set_intersection of two sorted lists                               *)
RECURSIVE SortedIntersection(_, _)
SortedIntersection(a, b) ==
  IF a = <<>> \/ b = <<>> THEN <<>>
  ELSE IF Head(a) < Head(b) THEN SortedIntersection(Tail(a), b)
  ELSE IF Head(b) < Head(a) THEN SortedIntersection(a, Tail(b))
  ELSE <<Head(a)>> \o SortedIntersection(Tail(a), Tail(b))

(* isInnerFace stopping at the simplices common to the first two vertices  *)
isInnerFace_pairOnly(simplices0, simplices1, simplices2) ==
  Len(SortedIntersection(simplices0, simplices1)) >= 2

isInnerFace(simplices0, simplices1, simplices2) ==
  LET common01 == SortedIntersection(simplices0, simplices1)
  IN IF Len(common01) < 2 THEN FALSE
     ELSE Len(SortedIntersection(simplices2, common01)) > 1

isVisible(visuVertex0, visuVertex1, visuVertex2) ==
  (visuVertex1[1] - visuVertex0[1]) * (visuVertex2[2] - visuVertex0[2])
    <= (visuVertex1[2] - visuVertex0[2]) * (visuVertex2[1] - visuVertex0[1])

(* The four faces of simplex i in the order draw3D enumerates them, as     *)
(* positions in the simplex                                                *)
FacePositions == <<<<1, 2, 3>>, <<1, 3, 4>>, <<1, 4, 2>>, <<2, 4, 3>>>>

(* The triangles simplex i adds to trianglesAndDepth, each with its depth  *)
(* key                                                                     *)
RECURSIVE SimplexTriangles(_, _, _, _, _)
SimplexTriangles(visu, map, backfaceCulling, i, f) ==
  IF f > Len(FacePositions) THEN <<>>
  ELSE LET a == simplices_[i + 1][FacePositions[f][1]]
           b == simplices_[i + 1][FacePositions[f][2]]
           c == simplices_[i + 1][FacePositions[f][3]]
           kept == /\ (~backfaceCulling) \/ isVisible(visu[a + 1], visu[b + 1], visu[c + 1])
                   /\ ~isInnerFace(map[a + 1], map[b + 1], map[c + 1])
       IN (IF kept
           THEN <<[first |-> visu[a + 1][3] + visu[b + 1][3] + visu[c + 1][3],
                   second |-> <<a, b, c>>]>>
           ELSE <<>>)
          \o SimplexTriangles(visu, map, backfaceCulling, i, f + 1)

RECURSIVE TrianglesAndDepth(_, _, _, _)
TrianglesAndDepth(visu, map, backfaceCulling, i) ==
  IF i >= getSimplicesNumber THEN <<>>
  ELSE SimplexTriangles(visu, map, backfaceCulling, i, 1)
       \o TrianglesAndDepth(visu, map, backfaceCulling, i + 1)

(* operator < of std::pair<Scalar, Indices>: the depth key first, then the *)
(* indices in lexicographic order                                          *)
RECURSIVE LexLess(_, _)
LexLess(a, b) ==
  IF b = <<>> THEN FALSE
  ELSE IF a = <<>> THEN TRUE
  ELSE IF Head(a) # Head(b) THEN Head(a) < Head(b)
  ELSE LexLess(Tail(a), Tail(b))

PairLess(p, q) == p.first < q.first \/ (p.first = q.first /\ LexLess(p.second, q.second))

(* std::sort(trianglesAndDepth.begin(), trianglesAndDepth.end())           *)
RECURSIVE InsertSorted(_, _)
InsertSorted(p, sorted) ==
  IF sorted = <<>> THEN <<p>>
  ELSE IF PairLess(Head(sorted), p) THEN <<Head(sorted)>> \o InsertSorted(p, Tail(sorted))
  ELSE <<p>> \o sorted

RECURSIVE SortPairs(_)
SortPairs(pairs) == IF pairs = <<>> THEN <<>> ELSE InsertSorted(Head(pairs), SortPairs(Tail(pairs)))

(* the emission loop running from the first triangle of the sorted table   *)
EmitOrder_forward(sorted) == sorted

(* The emission loop "for (i = size; i > 0; --i)" on trianglesAndDepth[i-1] *)
EmitOrder(sorted) == [k \in 1 .. Len(sorted) |-> sorted[Len(sorted) + 1 - k]]

(* the clamp without its upper bound                                       *)
ClippedRho2_noUpperBound(rho2) == IF rho2 < 0 THEN 0 ELSE rho2

(* std::min(1.0, std::max(0.0, rho)) on numerators over 2                  *)
ClippedRho2(rho2) == IF rho2 < 0 THEN 0 ELSE IF rho2 > 2 THEN 2 ELSE rho2

(* The 2D face drawn for a triangle, numerators over 6 * VisuScale         *)
Face(visu, triangle, clippedRho2) ==
  LET V(n) == visu[triangle[n] + 1]
      centre3 == [k \in 1 .. 2 |-> V(1)[k] + V(2)[k] + V(3)[k]]
  IN IF clippedRho2 < 2
     THEN [n \in 1 .. 3 |-> [k \in 1 .. 2 |->
             IF clippedRho2 > 0
             THEN 2 * centre3[k] + clippedRho2 * (3 * V(n)[k] - centre3[k])
             ELSE 2 * centre3[k]]]
     ELSE [n \in 1 .. 3 |-> [k \in 1 .. 2 |-> 6 * V(n)[k]]]

(* The colours of a face: the constants without shading, the Phong model   *)
(* with it (not evaluated here)                                            *)
FaceColor(shading) == IF shading THEN "phong" ELSE "flat"

RECURSIVE Flatten(_)
Flatten(faces) == IF faces = <<>> THEN <<>> ELSE Head(faces) \o Flatten(Tail(faces))

(* The drawables added to the graph: one Polygon per triangle, or one      *)
(* PolygonArray for all of them                                            *)
GraphOf(drawEdge, shading, faces) ==
  IF drawEdge
  THEN [k \in 1 .. Len(faces) |->
          [kind |-> "Polygon", data |-> faces[k], color |-> FaceColor(shading)]]
  ELSE <<[kind |-> "PolygonArray", data |-> Flatten(faces),
          color |-> [k \in 1 .. Len(faces) |-> FaceColor(shading)]]>>

(* What draw3D returns in the current state with the incidence map map:    *)
(* the graph, the triangles in the order of their emission, the clamped    *)
(* factor and whether the warning was logged                               *)
Draw3DResult(drawEdge, rotation, shading, rho2, backfaceCulling, map) ==
  LET visu == VisuVertices(rotation)
      emitted == EmitOrder(SortPairs(TrianglesAndDepth(visu, map, backfaceCulling, 0)))
      clippedRho2 == ClippedRho2(rho2)
  IN [graph |-> GraphOf(drawEdge, shading,
                        [k \in 1 .. Len(emitted) |-> Face(visu, emitted[k].second, clippedRho2)]),
      emitted |-> emitted,
      clippedRho2 |-> clippedRho2,
      warned |-> rho2 # clippedRho2]

(* Mesh::draw3D(drawEdge, rotation, shading, rho), with the value of       *)
(* ResourceMap "Mesh-BackfaceCulling" as a further input.  The callers'    *)
(* precondition is a mesh of dimension 3 at least (below, the reads of the *)
(* third coordinate and of the fourth vertex are out of bounds) and, when  *)
(* the rotation is not diagonal, of dimension 3 exactly (the product of    *)
(* the rotation with the vertices is that of a collaborator).              *)
draw3D(drawEdge, rotation, shading, rho2, backfaceCulling) ==
  LET arg == [drawEdge |-> drawEdge, rotation |-> rotation, shading |-> shading,
              rho2 |-> rho2, backfaceCulling |-> backfaceCulling]
  IN /\ dimension_ >= 3
     /\ IF checkValidityFrom(dimension_, vertices_, simplices_, 0).err # "none"
           \/ Len(rotation) # 3
           \/ ~isRotation(rotation)
           \/ getVerticesNumber = 0
        THEN /\ last' = Thrown("draw3D", arg, "InvalidArgument", <<>>)
             /\ UNCHANGED <<verticesToSimplices_, lowerBoundingBoxSimplices_,
                            upperBoundingBoxSimplices_>>
        ELSE /\ isDiagonal(rotation) \/ dimension_ = 3
             /\ PopulateIncidence
             /\ last' = Obs("draw3D", arg,
                            Draw3DResult(drawEdge, rotation, shading, rho2, backfaceCulling,
                                         verticesToSimplices_'),
                            "none", NoPre)
     /\ UNCHANGED <<dimension_, vertices_, simplices_, tree_, isAlreadyComputedVolume_, volume_>>

(* sin and cos of an angle given in quarter turns, 0 or 1                  *)
SinQ(q) == IF q = 1 THEN 1 ELSE 0
CosQ(q) == IF q = 0 THEN 1 ELSE 0

(* The matrix Mesh::draw3D builds from the three Euler angles              *)
EulerMatrix(thetaX, thetaY, thetaZ) ==
  <<<<CosQ(thetaY) * CosQ(thetaZ),
      CosQ(thetaX) * SinQ(thetaZ) + SinQ(thetaX) * SinQ(thetaY) * CosQ(thetaZ),
      SinQ(thetaX) * SinQ(thetaZ) - CosQ(thetaX) * SinQ(thetaY) * CosQ(thetaZ)>>,
    <<-CosQ(thetaY) * SinQ(thetaZ),
      CosQ(thetaX) * CosQ(thetaZ) - SinQ(thetaX) * SinQ(thetaY) * SinQ(thetaZ),
      SinQ(thetaX) * CosQ(thetaZ) + CosQ(thetaX) * SinQ(thetaY) * SinQ(thetaZ)>>,
    <<SinQ(thetaY), -SinQ(thetaX) * CosQ(thetaY), CosQ(thetaX) * CosQ(thetaY)>>>>

(* Mesh::draw3D(drawEdge, thetaX, thetaY, thetaZ, shading, rho)            *)
draw3DEuler(drawEdge, thetaX, thetaY, thetaZ, shading, rho2, backfaceCulling) ==
  draw3D(drawEdge, EulerMatrix(thetaX, thetaY, thetaZ), shading, rho2, backfaceCulling)

(* Mesh::draw1D: one Curve per simplex, then the Cloud of the vertices     *)
draw1D ==
  /\ IF checkValidityFrom(dimension_, vertices_, simplices_, 0).err # "none"
        \/ dimension_ # 1
        \/ getVerticesNumber = 0
     THEN last' = Thrown("draw1D", <<>>, "InvalidArgument", <<>>)
     ELSE last' = Obs("draw1D", <<>>,
                      [graph |->
                         [i \in 1 .. getSimplicesNumber |->
                            [kind |-> "Curve",
                             data |-> <<<<vertices_[simplices_[i][1] + 1][1], 0>>,
                                        <<vertices_[simplices_[i][2] + 1][1], 0>>>>]]
                         \o <<[kind |-> "Cloud",
                               data |-> [v \in 1 .. getVerticesNumber |-> <<vertices_[v][1], 0>>]]>>],
                      "none", NoPre)
  /\ UNCHANGED mesh

(* Mesh::draw2D.  It does not look at the dimension: past its two checks,  *)
(* the callers' precondition is a mesh of dimension 2 (on other vertices   *)
(* what happens is decided by Cloud(vertices_), a collaborator).           *)
draw2D ==
  /\ IF checkValidityFrom(dimension_, vertices_, simplices_, 0).err # "none"
        \/ getVerticesNumber = 0
     THEN last' = Thrown("draw2D", <<>>, "InvalidArgument", <<>>)
     ELSE /\ dimension_ = 2
          /\ last' = Obs("draw2D", <<>>,
                         [graph |->
                            [i \in 1 .. getSimplicesNumber |->
                               [kind |-> "Curve",
                                data |-> <<vertices_[simplices_[i][1] + 1],
                                           vertices_[simplices_[i][2] + 1],
                                           vertices_[simplices_[i][3] + 1],
                                           vertices_[simplices_[i][1] + 1]>>]]
                            \o <<[kind |-> "Cloud", data |-> vertices_]>>],
                         "none", NoPre)
  /\ UNCHANGED mesh

(* Mesh::draw: the test of the dimension, then the call it returns, whose  *)
(* observation is the one recorded; draw3D() is called with the default    *)
(* arguments of its declaration (edges, no rotation, no shading, rho = 1)  *)
draw(backfaceCulling) ==
  IF dimension_ > 3
  THEN /\ last' = Thrown("draw", <<>>, "InvalidArgument", <<>>)
       /\ UNCHANGED mesh
  ELSE IF dimension_ = 1 THEN draw1D
  ELSE IF dimension_ = 2 THEN draw2D
  ELSE draw3DEuler(TRUE, 0, 0, 0, FALSE, 2, backfaceCulling)

(****************************** construction *******************************)
Dimensions == {1}

(* Mesh(vertices) and Mesh(vertices, simplices): the member initialisers   *)
(* followed by setVertices(vertices).                                      *)
Init ==
  /\ dimension_ \in Dimensions
  /\ vertices_ \in Samples(dimension_)
  /\ simplices_ \in IndicesCollections(dimension_)
  /\ tree_ = <<>>
  /\ verticesToSimplices_ = <<>>
  /\ lowerBoundingBoxSimplices_ = <<>>
  /\ upperBoundingBoxSimplices_ = <<>>
  /\ isAlreadyComputedVolume_ = FALSE
  /\ volume_ = 0
  /\ last = Obs("Mesh", <<>>, <<>>, "none", NoPre)
  /\ Quiescent

SetVertices == \E vertices \in Samples(dimension_) : setVertices(vertices) /\ Sequential
SetVertex == \E index \in 0 .. MaxVertices, vertex \in Points(dimension_) : setVertex(index, vertex) /\ Sequential
SetSimplices == \E simplices \in IndicesCollections(dimension_) : setSimplices(simplices) /\ Sequential
ComputeVolume == \E split \in 0 .. getSimplicesNumber : computeVolume(split) /\ Sequential
GetVolume == \E split \in 0 .. getSimplicesNumber : getVolume(split) /\ Sequential
ComputeSimplexVolume == \E index \in 0 .. getSimplicesNumber : computeSimplexVolumeCall(index) /\ Sequential
GetVertex == \E index \in 0 .. MaxVertices : getVertex(index) /\ Sequential
GetSimplex == \E index \in 0 .. MaxSimplices : getSimplex(index) /\ Sequential
ComputeKDTree == computeKDTree /\ Sequential
GetNearestVertexIndex == \E point \in Points(dimension_) : getNearestVertexIndex(point) /\ Sequential
GetVerticesToSimplicesMap == getVerticesToSimplicesMap /\ Sequential
ComputeWeights == computeWeights /\ Sequential
Contains ==
  \E point \in Points(dimension_) :
    \E nearestIndex \in NearestVertexIndices(point) : contains(point, nearestIndex) /\ Sequential

Next ==
  \/ SetVertices
  \/ SetVertex
  \/ SetSimplices
  \/ ComputeVolume
  \/ GetVolume
  \/ ComputeSimplexVolume
  \/ GetVertex
  \/ GetSimplex
  \/ ComputeKDTree
  \/ GetNearestVertexIndex
  \/ GetVerticesToSimplicesMap
  \/ ComputeWeights
  \/ Contains

Spec == Init /\ [][Next]_vars

(* A constructed mesh under any interleaving of the calls that populate    *)
(* or use a cache                                                          *)
NextQueries ==
  \/ GetVolume
  \/ ComputeKDTree
  \/ GetNearestVertexIndex
  \/ GetVerticesToSimplicesMap
  \/ ComputeWeights
  \/ Contains

SpecQueries == Init /\ [][NextQueries]_vars

(* A constructed mesh under the indexed accessors                          *)
NextAccessors ==
  \/ GetVertex
  \/ GetSimplex

SpecAccessors == Init /\ [][NextAccessors]_vars

(* The vertex setters and the volume queries                               *)
NextVertices ==
  \/ SetVertices
  \/ SetVertex
  \/ ComputeVolume
  \/ GetVolume

SpecVertices == Init /\ [][NextVertices]_vars

(* The setters and the volume queries                                      *)
NextVolume ==
  \/ SetVertices
  \/ SetVertex
  \/ SetSimplices
  \/ ComputeVolume
  \/ GetVolume

SpecVolume == Init /\ [][NextVolume]_vars

(* The vertex setters, the spatial index and the nearest-vertex query      *)
NextIndex ==
  \/ SetVertices
  \/ SetVertex
  \/ ComputeKDTree
  \/ GetNearestVertexIndex

SpecIndex == Init /\ [][NextIndex]_vars

(* The setters and the queries that use the incidence cache                *)
NextContains ==
  \/ SetVertices
  \/ SetVertex
  \/ SetSimplices
  \/ GetVerticesToSimplicesMap
  \/ Contains

SpecContains == Init /\ [][NextContains]_vars

(* setSimplices on a mesh whose caches the other calls populate            *)
NextSimplices ==
  \/ SetSimplices
  \/ ComputeKDTree
  \/ GetVerticesToSimplicesMap
  \/ ComputeWeights
  \/ Contains

SpecSimplices == Init /\ [][NextSimplices]_vars

(* computeSimplexVolume as a function of one simplex: a mesh of dimension  *)
(* 1 or 2 made of dimension + 1 vertices and one simplex listing them in   *)
(* any order                                                               *)
InitSimplexVolume ==
  /\ dimension_ \in {1, 2}
  /\ vertices_ \in [1 .. (dimension_ + 1) -> Points(dimension_)]
  /\ simplices_ \in [1 .. 1 -> {t \in [1 .. (dimension_ + 1) -> 0 .. dimension_] :
                          \A j, k \in 1 .. (dimension_ + 1) : t[j] = t[k] => j = k}]
  /\ tree_ = <<>>
  /\ verticesToSimplices_ = <<>>
  /\ lowerBoundingBoxSimplices_ = <<>>
  /\ upperBoundingBoxSimplices_ = <<>>
  /\ isAlreadyComputedVolume_ = FALSE
  /\ volume_ = 0
  /\ last = Obs("Mesh", <<>>, <<>>, "none", NoPre)
  /\ Quiescent

SpecSimplexVolume == InitSimplexVolume /\ [][ComputeSimplexVolume]_vars

(* The validity check on meshes whose simplices have any size from        *)
(* dimension to dimension + 2 and any indices, repeated or not             *)
AnySimplexTuples(d) == UNION {[1 .. n -> 0 .. (MaxVertices - 1)] : n \in d .. (d + 2)}

InitValidity ==
  /\ dimension_ \in Dimensions
  /\ vertices_ \in Samples(dimension_)
  /\ simplices_ \in UNION {[1 .. m -> AnySimplexTuples(dimension_)] : m \in 0 .. MaxSimplices}
  /\ tree_ = <<>>
  /\ verticesToSimplices_ = <<>>
  /\ lowerBoundingBoxSimplices_ = <<>>
  /\ upperBoundingBoxSimplices_ = <<>>
  /\ isAlreadyComputedVolume_ = FALSE
  /\ volume_ = 0
  /\ last = Obs("Mesh", <<>>, <<>>, "none", NoPre)
  /\ Quiescent

CheckValidity == checkValidityCall /\ Sequential
IsValid == isValidCall /\ Sequential

NextValidity ==
  \/ CheckValidity
  \/ IsValid

SpecValidity == InitValidity /\ [][NextValidity]_vars

(* The brute-force nearest-vertex scan under every schedule, on the        *)
(* vertex tables the vertex setters produce                                *)
GetNearestVertexIndexReduce ==
  \E point \in Points(dimension_) :
    \E s1 \in 0 .. getVerticesNumber :
      \E s2 \in s1 .. getVerticesNumber :
        \E leftFirst \in BOOLEAN : getNearestVertexIndexReduce(point, s1, s2, leftFirst) /\ Sequential

(* Mesh(vertices): no simplex                                               *)
InitVertices ==
  /\ dimension_ \in Dimensions
  /\ vertices_ \in Samples(dimension_)
  /\ simplices_ = <<>>
  /\ tree_ = <<>>
  /\ verticesToSimplices_ = <<>>
  /\ lowerBoundingBoxSimplices_ = <<>>
  /\ upperBoundingBoxSimplices_ = <<>>
  /\ isAlreadyComputedVolume_ = FALSE
  /\ volume_ = 0
  /\ last = Obs("Mesh", <<>>, <<>>, "none", NoPre)
  /\ Quiescent

NextNearest ==
  \/ SetVertices
  \/ SetVertex
  \/ GetNearestVertexIndexReduce

SpecNearest == InitVertices /\ [][NextNearest]_vars

(* The point-location query on the meshes the setters produce, with the    *)
(* incidence cache populated or not                                        *)
GetNearestVertexAndSimplexIndicesWithCoordinates ==
  \E point \in Points(dimension_) :
    \E nearestIndex \in NearestVertexIndices(point) :
      getNearestVertexAndSimplexIndicesWithCoordinates(point, nearestIndex) /\ Sequential

NextLocate ==
  \/ SetVertex
  \/ SetSimplices
  \/ GetVerticesToSimplicesMap
  \/ GetNearestVertexAndSimplexIndicesWithCoordinates

SpecLocate == Init /\ [][NextLocate]_vars

(* The integration weights on meshes that have one vertex more than the   *)
(* simplices can refer to, so that a vertex of no simplex is always there; *)
(* setVertex moves the vertices under a populated cache                    *)
InitWeights ==
  /\ dimension_ \in Dimensions
  /\ vertices_ \in [1 .. (MaxVertices + 1) -> Points(dimension_)]
  /\ simplices_ \in IndicesCollections(dimension_)
  /\ tree_ = <<>>
  /\ verticesToSimplices_ = <<>>
  /\ lowerBoundingBoxSimplices_ = <<>>
  /\ upperBoundingBoxSimplices_ = <<>>
  /\ isAlreadyComputedVolume_ = FALSE
  /\ volume_ = 0
  /\ last = Obs("Mesh", <<>>, <<>>, "none", NoPre)
  /\ Quiescent

NextWeights ==
  \/ SetVertex
  \/ GetVerticesToSimplicesMap
  \/ ComputeWeights

SpecWeights == InitWeights /\ [][NextWeights]_vars

(* The setters called with a vertex table of any dimension: setVertices    *)
(* takes a Sample and does not look at its dimension; setVertex is given   *)
(* points of the dimension of the table it writes into.                    *)
SetVerticesAnyDimension ==
  \E d \in {dimension_, dimension_ + 1} :
    \E vertices \in Samples(d) : setVertices(vertices) /\ Sequential

SetVertexOfTable ==
  \E index \in 0 .. MaxVertices :
    \E vertex \in Points(IF vertices_ = <<>> THEN dimension_ ELSE Len(vertices_[1])) :
      setVertex(index, vertex) /\ Sequential

NextDimension ==
  \/ SetVerticesAnyDimension
  \/ SetVertexOfTable
  \/ SetSimplices

SpecDimension == Init /\ [][NextDimension]_vars

(* The 3D renderer on meshes of five vertices and a few tetrahedra, two    *)
(* of which share the face {1, 2, 3}; the third coordinate of the first    *)
(* vertices varies                                                         *)
BaseVertices3D == <<<<0, 0, 0>>, <<1, 0, 0>>, <<0, 1, 0>>, <<0, 0, 1>>, <<1, 1, 1>>>>
Tetrahedra == {<<0, 1, 2, 3>>, <<1, 2, 3, 4>>, <<2, 1, 3, 4>>}

InitDraw3D ==
  /\ dimension_ = 3
  /\ \E h \in [1 .. (MaxVertices - 1) -> Coords] :
       vertices_ = [v \in 1 .. Len(BaseVertices3D) |->
                      IF v < MaxVertices THEN [BaseVertices3D[v] EXCEPT ![3] = h[v]]
                      ELSE BaseVertices3D[v]]
  /\ simplices_ \in UNION {[1 .. m -> Tetrahedra] : m \in 0 .. (MaxSimplices + 1)}
  /\ tree_ = <<>>
  /\ verticesToSimplices_ = <<>>
  /\ lowerBoundingBoxSimplices_ = <<>>
  /\ upperBoundingBoxSimplices_ = <<>>
  /\ isAlreadyComputedVolume_ = FALSE
  /\ volume_ = 0
  /\ last = Obs("Mesh", <<>>, <<>>, "none", NoPre)
  /\ Quiescent

(* The rotations given to draw3D: the half turn about the first axis (a    *)
(* diagonal matrix), the quarter turn about it, a matrix that is no        *)
(* rotation and a matrix of dimension 2                                    *)
HalfTurnX == <<<<1, 0, 0>>, <<0, -1, 0>>, <<0, 0, -1>>>>
QuarterTurnX == <<<<1, 0, 0>>, <<0, 0, -1>>, <<0, 1, 0>>>>
Shear == <<<<1, 1, 0>>, <<0, 1, 0>>, <<0, 0, 1>>>>
Rotations == {HalfTurnX, QuarterTurnX, Shear, IdentityMatrix(2)}

(* draw3D under every rotation, in both output modes, with and without     *)
(* backface culling                                                        *)
Draw3DRotated ==
  \E drawEdge \in BOOLEAN, rotation \in Rotations, backfaceCulling \in BOOLEAN :
    draw3D(drawEdge, rotation, FALSE, 2, backfaceCulling) /\ Sequential

SpecDraw3D == InitDraw3D /\ [][Draw3DRotated]_vars

(* draw3D with and without backface culling, the vertices rotated or not   *)
Draw3DCulled ==
  \E rotation \in {IdentityMatrix(3), QuarterTurnX}, backfaceCulling \in BOOLEAN :
    draw3D(TRUE, rotation, FALSE, 2, backfaceCulling) /\ Sequential

SpecCulling == InitDraw3D /\ [][Draw3DCulled]_vars

(* draw3D under every shrink factor -1/2, 0, 1/2, 1, 3/2, in both output   *)
(* modes, with and without shading                                         *)
Rhos2 == {-1, 0, 1, 2, 3}

Draw3DShrunk ==
  \E drawEdge \in BOOLEAN, shading \in BOOLEAN, rho2 \in Rhos2 :
    draw3D(drawEdge, IdentityMatrix(3), shading, rho2, FALSE) /\ Sequential

SpecShrink == InitDraw3D /\ [][Draw3DShrunk]_vars

(* The drawing entry points on meshes of dimension 1 to 4: no vertex, or  *)
(* the corners of a simplex (a point on the first axis and the unit        *)
(* points), with or without the simplex that lists them                    *)
CornerVertices(d, h) ==
  [v \in 1 .. (d + 1) |-> [k \in 1 .. d |-> IF v = 1 THEN (IF k = 1 THEN h ELSE 0)
                                              ELSE IF k = v - 1 THEN 1 ELSE 0]]

InitDraw ==
  /\ dimension_ \in 1 .. 4
  /\ vertices_ \in {<<>>} \cup {CornerVertices(dimension_, h) : h \in Coords}
  /\ simplices_ \in UNION {[1 .. m -> {[j \in 1 .. (dimension_ + 1) |-> j - 1]}] :
                              m \in 0 .. MaxSimplices}
  /\ tree_ = <<>>
  /\ verticesToSimplices_ = <<>>
  /\ lowerBoundingBoxSimplices_ = <<>>
  /\ upperBoundingBoxSimplices_ = <<>>
  /\ isAlreadyComputedVolume_ = FALSE
  /\ volume_ = 0
  /\ last = Obs("Mesh", <<>>, <<>>, "none", NoPre)
  /\ Quiescent

Draw3DMatrix ==
  \E drawEdge \in BOOLEAN, rotation \in {IdentityMatrix(3), QuarterTurnX, Shear} :
    draw3D(drawEdge, rotation, FALSE, 2, FALSE) /\ Sequential
Draw3DEuler ==
  \E drawEdge \in BOOLEAN, thetaX \in {0, 1}, thetaZ \in {0, 1} :
    draw3DEuler(drawEdge, thetaX, 0, thetaZ, FALSE, 2, FALSE) /\ Sequential
Draw == \E backfaceCulling \in BOOLEAN : draw(backfaceCulling) /\ Sequential
Draw1D == draw1D /\ Sequential
Draw2D == draw2D /\ Sequential

NextDraw ==
  \/ Draw3DMatrix
  \/ Draw3DEuler
  \/ Draw
  \/ Draw1D
  \/ Draw2D

SpecDraw == InitDraw /\ [][NextDraw]_vars

(*************************** concurrent callers ****************************)
(* Two caller threads, each running one const query on the same mesh.  A   *)
(* step of a thread is one statement, or one loop iteration, of the query  *)
(* between two accesses to the shared caches: the accesses of two calls    *)
(* interleave in any order.  A call keeps its position (pc), the position  *)
(* getVerticesToSimplicesMap returns to (after), its locals, the value it  *)
(* returned (ret), the members it assigned (wrote), whether the caches     *)
(* were populated when it started, whether it read caches that were        *)
(* allocated but not completely built (partial), and whether another call  *)
(* was in flight while it ran (overlapped).                                *)
Callers == {1, 2}

NewCall(op, point) ==
  [op |-> op, point |-> point, pc |-> "begin", after |-> "none",
   nearestIndex |-> 0, candidates |-> <<>>, i |-> 0, j |-> 0, acc |-> 0,
   ret |-> "none", wrote |-> {}, populated |-> FALSE, partial |-> FALSE,
   overlapped |-> FALSE]

InFlight(c) == c.pc \notin {"begin", "done"}

(* calls once thread t has moved to c: two calls overlap as soon as one    *)
(* takes a step while the other is in flight                               *)
Moved(t, c) ==
  [u \in Callers |->
     IF u = t
     THEN [c EXCEPT !.overlapped = @ \/ \E w \in Callers \ {t} : InFlight(calls[w])]
     ELSE [calls[u] EXCEPT !.overlapped = @ \/ InFlight(calls[u])]]

(* The incidence map is allocated while it, or a bounding-box table, is    *)
(* not what the complete build gives                                       *)
CachesPartial ==
  /\ Len(verticesToSimplices_) > 0
  /\ \/ verticesToSimplices_ # BuildVerticesToSimplices(vertices_, simplices_)
     \/ lowerBoundingBoxSimplices_ # BuildLowerBoundingBox(dimension_, vertices_, simplices_)
     \/ upperBoundingBoxSimplices_ # BuildUpperBoundingBox(dimension_, vertices_, simplices_)

(* A call that is between the first and the last assignment of a cache it  *)
(* populates                                                               *)
Populating(c) ==
  \/ c.pc \in {"map_alloc", "map_lower", "map_upper", "map_loop"}
  \/ c.op = "getVolume" /\ c.pc \in {"volume_flag", "getVolume_store"}

(* The caches a query relies on are all populated: the incidence map and   *)
(* the bounding boxes are completely built, the volume flag is set, and no *)
(* call is still populating one of them                                    *)
Populated ==
  /\ Len(verticesToSimplices_) > 0
  /\ ~CachesPartial
  /\ isAlreadyComputedVolume_
  /\ \A u \in Callers : ~Populating(calls[u])

(* The first statement of a call of the given operation                    *)
Begins(t, op) == calls[t].pc = "begin" /\ calls[t].op = op
Started(t) == [calls[t] EXCEPT !.populated = Populated]

(* A step that assigns no member                                           *)
ReadOnly == UNCHANGED <<mesh, last, numericalPrecision>>

(* if (verticesToSimplices_.getSize() == 0) (void) getVerticesToSimplicesMap(); *)
SizeTest(t, c, after) ==
  calls' = Moved(t, IF Len(verticesToSimplices_) = 0
                    THEN [c EXCEPT !.pc = "map_size", !.after = after]
                    ELSE [c EXCEPT !.pc = after])

(* getVerticesToSimplicesMap, statement by statement                       *)
MapSize(t) ==
  /\ calls[t].pc = "map_size"
  /\ calls' = Moved(t, [calls[t] EXCEPT !.pc = IF Len(verticesToSimplices_) > 0
                                                THEN calls[t].after ELSE "map_alloc"])
  /\ ReadOnly

MapAlloc(t) ==
  /\ calls[t].pc = "map_alloc"
  /\ verticesToSimplices_' = [v \in 1 .. getVerticesNumber |-> <<>>]
  /\ calls' = Moved(t, [calls[t] EXCEPT !.pc = "map_lower",
                                        !.wrote = @ \cup {"verticesToSimplices_"}])
  /\ UNCHANGED <<dimension_, vertices_, simplices_, tree_, lowerBoundingBoxSimplices_,
                 upperBoundingBoxSimplices_, isAlreadyComputedVolume_, volume_, last,
                 numericalPrecision>>

MapLower(t) ==
  /\ calls[t].pc = "map_lower"
  /\ lowerBoundingBoxSimplices_' =
       [s \in 1 .. getSimplicesNumber |-> [k \in 1 .. dimension_ |-> MaxScalar]]
  /\ calls' = Moved(t, [calls[t] EXCEPT !.pc = "map_upper",
                                        !.wrote = @ \cup {"lowerBoundingBoxSimplices_"}])
  /\ UNCHANGED <<dimension_, vertices_, simplices_, tree_, verticesToSimplices_,
                 upperBoundingBoxSimplices_, isAlreadyComputedVolume_, volume_, last,
                 numericalPrecision>>

MapUpper(t) ==
  /\ calls[t].pc = "map_upper"
  /\ upperBoundingBoxSimplices_' =
       [s \in 1 .. getSimplicesNumber |-> [k \in 1 .. dimension_ |-> -MaxScalar]]
  /\ calls' = Moved(t, [calls[t] EXCEPT !.pc = IF getSimplicesNumber > 0 THEN "map_loop"
                                                ELSE calls[t].after,
                                        !.i = 0, !.j = 0,
                                        !.wrote = @ \cup {"upperBoundingBoxSimplices_"}])
  /\ UNCHANGED <<dimension_, vertices_, simplices_, tree_, verticesToSimplices_,
                 lowerBoundingBoxSimplices_, isAlreadyComputedVolume_, volume_, last,
                 numericalPrecision>>

(* the loop visiting the first entry of each simplex only                  *)
MapLoop_firstEntryOnly(t) ==
  LET c == calls[t]
      index == simplices_[c.i + 1][1]
      endOfLoop == c.i + 1 >= getSimplicesNumber
  IN /\ c.pc = "map_loop"
     /\ lowerBoundingBoxSimplices_' =
          [lowerBoundingBoxSimplices_ EXCEPT ![c.i + 1] =
             [k \in 1 .. dimension_ |->
                IF vertices_[index + 1][k] < @[k] THEN vertices_[index + 1][k] ELSE @[k]]]
     /\ upperBoundingBoxSimplices_' =
          [upperBoundingBoxSimplices_ EXCEPT ![c.i + 1] =
             [k \in 1 .. dimension_ |->
                IF vertices_[index + 1][k] > @[k] THEN vertices_[index + 1][k] ELSE @[k]]]
     /\ verticesToSimplices_' = [verticesToSimplices_ EXCEPT ![index + 1] = Append(@, c.i)]
     /\ calls' = Moved(t, [c EXCEPT !.pc = IF endOfLoop THEN c.after ELSE "map_loop",
                                    !.i = c.i + 1])
     /\ UNCHANGED <<dimension_, vertices_, simplices_, tree_, isAlreadyComputedVolume_,
                    volume_, last, numericalPrecision>>

(* One iteration of the loop over the entries of the simplices: entry j of *)
(* simplex i widens the bounding box of i and adds i to the list of its    *)
(* vertex                                                                  *)
MapLoop(t) ==
  LET c == calls[t]
      simplex == simplices_[c.i + 1]
      index == simplex[c.j + 1]
      endOfSimplex == c.j + 1 >= Len(simplex)
      endOfLoop == endOfSimplex /\ c.i + 1 >= getSimplicesNumber
  IN /\ c.pc = "map_loop"
     /\ lowerBoundingBoxSimplices_' =
          [lowerBoundingBoxSimplices_ EXCEPT ![c.i + 1] =
             [k \in 1 .. dimension_ |->
                IF vertices_[index + 1][k] < @[k] THEN vertices_[index + 1][k] ELSE @[k]]]
     /\ upperBoundingBoxSimplices_' =
          [upperBoundingBoxSimplices_ EXCEPT ![c.i + 1] =
             [k \in 1 .. dimension_ |->
                IF vertices_[index + 1][k] > @[k] THEN vertices_[index + 1][k] ELSE @[k]]]
     /\ verticesToSimplices_' = [verticesToSimplices_ EXCEPT ![index + 1] = Append(@, c.i)]
     /\ calls' = Moved(t, [c EXCEPT !.pc = IF endOfLoop THEN c.after ELSE "map_loop",
                                    !.i = IF endOfSimplex THEN c.i + 1 ELSE c.i,
                                    !.j = IF endOfSimplex THEN 0 ELSE c.j + 1])
     /\ UNCHANGED <<dimension_, vertices_, simplices_, tree_, isAlreadyComputedVolume_,
                    volume_, last, numericalPrecision>>

(* Mesh::contains, statement by statement                                  *)
ContainsBounds(t) ==
  /\ Begins(t, "contains")
  /\ IF ~IntervalContains(getLowerBound, getUpperBound, calls[t].point)
     THEN calls' = Moved(t, [Started(t) EXCEPT !.pc = "done", !.ret = "false"])
     ELSE \E nearestIndex \in NearestVertexIndices(calls[t].point) :
            calls' = Moved(t, [Started(t) EXCEPT !.pc = "contains_size",
                                                 !.nearestIndex = nearestIndex])
  /\ ReadOnly

ContainsSize(t) ==
  /\ calls[t].pc = "contains_size"
  /\ SizeTest(t, calls[t], "contains_candidates")
  /\ ReadOnly

(* const Indices simplicesCandidates(verticesToSimplices_[nearestIndex])   *)
ReadCandidates(t, next) ==
  calls' = Moved(t, [calls[t] EXCEPT !.pc = next,
                                     !.candidates = verticesToSimplices_[calls[t].nearestIndex + 1],
                                     !.i = 0,
                                     !.partial = @ \/ CachesPartial])

ContainsCandidates(t) ==
  /\ calls[t].pc = "contains_candidates"
  /\ ReadCandidates(t, "contains_first")
  /\ ReadOnly

(* One iteration of a loop "if (checkPointInSimplex(point, list[i]))        *)
(* return true" of contains; at the end of the list the call goes on at    *)
(* atEnd with the result it has so far                                     *)
ContainsLoop(t, list, atEnd) ==
  LET c == calls[t]
      r == checkPointInSimplex(c.point, list[c.i + 1],
                               lowerBoundingBoxSimplices_, upperBoundingBoxSimplices_)
  IN IF c.i >= Len(list)
     THEN calls' = Moved(t, [c EXCEPT !.pc = atEnd, !.i = 0,
                                      !.ret = IF atEnd = "done" THEN "false" ELSE @])
     ELSE calls' = Moved(t, [c EXCEPT !.pc = IF r = "false" THEN @ ELSE "done",
                                      !.i = @ + 1,
                                      !.ret = IF r = "false" THEN @ ELSE r,
                                      !.partial = @ \/ CachesPartial])

ContainsFirst(t) ==
  /\ calls[t].pc = "contains_first"
  /\ ContainsLoop(t, calls[t].candidates, "contains_full")
  /\ ReadOnly

ContainsFull(t) ==
  /\ calls[t].pc = "contains_full"
  /\ ContainsLoop(t, [s \in 1 .. getSimplicesNumber |-> s - 1], "done")
  /\ ReadOnly

(* Mesh::getNearestVertexAndSimplexIndicesWithCoordinates, statement by    *)
(* statement; ret is the record FirstContaining gives                      *)
LocateNearest(t) ==
  /\ Begins(t, "getNearestVertexAndSimplexIndicesWithCoordinates")
  /\ \E nearestIndex \in NearestVertexIndices(calls[t].point) :
       calls' = Moved(t, [Started(t) EXCEPT !.pc = "locate_size",
                                            !.nearestIndex = nearestIndex])
  /\ ReadOnly

LocateSize(t) ==
  /\ calls[t].pc = "locate_size"
  /\ SizeTest(t, calls[t], "locate_candidates")
  /\ ReadOnly

LocateCandidates(t) ==
  /\ calls[t].pc = "locate_candidates"
  /\ ReadCandidates(t, "locate_loop")
  /\ ReadOnly

LocateLoop(t) ==
  LET c == calls[t]
      r == checkPointInSimplex(c.point, c.candidates[c.i + 1],
                               lowerBoundingBoxSimplices_, upperBoundingBoxSimplices_)
  IN /\ c.pc = "locate_loop"
     /\ IF c.i >= Len(c.candidates)
        THEN calls' = Moved(t, [c EXCEPT !.pc = "done",
                                         !.ret = [r |-> "false", simplex |-> 0]])
        ELSE calls' = Moved(t, [c EXCEPT !.pc = IF r = "false" THEN @ ELSE "done",
                                         !.i = @ + 1,
                                         !.ret = IF r = "false" THEN @
                                                 ELSE [r |-> r, simplex |-> c.candidates[c.i + 1]],
                                         !.partial = @ \/ CachesPartial])
     /\ ReadOnly

(* Mesh::computeWeights: the volumes of the simplices, the call of         *)
(* getVerticesToSimplicesMap, then the sums over the copy it returned      *)
WeightsVolumes(t) ==
  /\ Begins(t, "computeWeights")
  /\ calls' = Moved(t, [Started(t) EXCEPT !.pc = "map_size", !.after = "weights_copy"])
  /\ ReadOnly

WeightsCopy(t) ==
  /\ calls[t].pc = "weights_copy"
  /\ calls' = Moved(t, [calls[t] EXCEPT
                          !.pc = "done",
                          !.partial = @ \/ CachesPartial,
                          !.ret = [v \in 1 .. Len(verticesToSimplices_) |->
                                     SeqSum([n \in 1 .. Len(verticesToSimplices_[v]) |->
                                               computeSimplexVolume(verticesToSimplices_[v][n])])]])
  /\ ReadOnly

(* Mesh::getNearestVertexIndex(point): it reads vertices_ and tree_ only   *)
NearestIndex(t) ==
  /\ Begins(t, "getNearestVertexIndex")
  /\ \E index \in NearestVertexIndices(calls[t].point) :
       calls' = Moved(t, [Started(t) EXCEPT !.pc = "done", !.ret = index])
  /\ ReadOnly

(* Mesh::computeVolume: the reduction, then the assignment of the flag     *)
VolumeReduction(t) ==
  /\ Begins(t, "computeVolume")
  /\ \E split \in 0 .. getSimplicesNumber :
       calls' = Moved(t, [Started(t) EXCEPT
                            !.pc = "volume_flag",
                            !.acc = VolumeReduce(dimension_, vertices_, simplices_, split)])
  /\ ReadOnly

VolumeFlag(t) ==
  LET c == calls[t]
  IN /\ c.pc = "volume_flag"
     /\ isAlreadyComputedVolume_' = TRUE
     /\ calls' = Moved(t, [c EXCEPT !.pc = IF c.op = "computeVolume" THEN "done"
                                           ELSE "getVolume_store",
                                    !.ret = IF c.op = "computeVolume" THEN c.acc ELSE @,
                                    !.wrote = @ \cup {"isAlreadyComputedVolume_"}])
     /\ UNCHANGED <<dimension_, vertices_, simplices_, tree_, verticesToSimplices_,
                    lowerBoundingBoxSimplices_, upperBoundingBoxSimplices_, volume_, last,
                    numericalPrecision>>

(* Mesh::getVolume: the test of the flag, the call of computeVolume and    *)
(* the assignment of volume_, then the read of volume_ it returns          *)
GetVolumeTest(t) ==
  /\ Begins(t, "getVolume")
  /\ IF isAlreadyComputedVolume_
     THEN calls' = Moved(t, [Started(t) EXCEPT !.pc = "getVolume_return"])
     ELSE \E split \in 0 .. getSimplicesNumber :
            calls' = Moved(t, [Started(t) EXCEPT
                                 !.pc = "volume_flag",
                                 !.acc = VolumeReduce(dimension_, vertices_, simplices_, split)])
  /\ ReadOnly

GetVolumeStore(t) ==
  /\ calls[t].pc = "getVolume_store"
  /\ volume_' = calls[t].acc
  /\ calls' = Moved(t, [calls[t] EXCEPT !.pc = "getVolume_return",
                                        !.wrote = @ \cup {"volume_"}])
  /\ UNCHANGED <<dimension_, vertices_, simplices_, tree_, verticesToSimplices_,
                 lowerBoundingBoxSimplices_, upperBoundingBoxSimplices_,
                 isAlreadyComputedVolume_, last, numericalPrecision>>

GetVolumeReturn(t) ==
  /\ calls[t].pc = "getVolume_return"
  /\ calls' = Moved(t, [calls[t] EXCEPT !.pc = "done", !.ret = volume_])
  /\ ReadOnly

(* The calls two callers make: threads are interchangeable, so a pair of   *)
(* calls is taken once, whichever thread makes which                       *)
CallsOf(ops) ==
  {NewCall(op, point) :
     op \in ops \cap {"contains", "getNearestVertexIndex",
                      "getNearestVertexAndSimplexIndicesWithCoordinates"},
     point \in Points(dimension_)}
  \cup {NewCall(op, <<>>) : op \in ops \cap {"computeWeights", "computeVolume", "getVolume"}}

PairsOfCalls(ops) ==
  {LET a == CHOOSE x \in S : TRUE
   IN <<a, CHOOSE y \in S : S = {a, y}>> :
     S \in {T \in SUBSET CallsOf(ops) : Cardinality(T) \in {1, 2}}}

(* A valid mesh that has a vertex, as constructed                          *)
InitMeshOfCallers ==
  /\ dimension_ \in Dimensions
  /\ vertices_ \in Samples(dimension_)
  /\ getVerticesNumber > 0
  /\ simplices_ \in IndicesCollections(dimension_)
  /\ isValid
  /\ tree_ = <<>>
  /\ last = Obs("Mesh", <<>>, <<>>, "none", NoPre)
  /\ numericalPrecision = 6

(* A grid of dimension 1, as constructed: up to MaxVertices vertices in    *)
(* increasing order and up to MaxSimplices segments, each between two      *)
(* consecutive vertices                                                    *)
InitGrid ==
  /\ dimension_ = 1
  /\ vertices_ \in {v \in Samples(1) :
                      /\ Len(v) > 0
                      /\ \A n \in 1 .. (Len(v) - 1) : v[n][1] < v[n + 1][1]}
  /\ simplices_ \in UNION {[1 .. m -> {<<n - 1, n>> : n \in 1 .. (getVerticesNumber - 1)}] :
                              m \in 0 .. MaxSimplices}
  /\ tree_ = <<>>
  /\ verticesToSimplices_ = <<>>
  /\ lowerBoundingBoxSimplices_ = <<>>
  /\ upperBoundingBoxSimplices_ = <<>>
  /\ isAlreadyComputedVolume_ = FALSE
  /\ volume_ = 0
  /\ last = Obs("Mesh", <<>>, <<>>, "none", NoPre)
  /\ numericalPrecision = 6

(* The first access to the incidence cache made by two concurrent queries  *)
InitFirstTouch ==
  /\ InitGrid
  /\ calls \in PairsOfCalls({"contains", "computeWeights",
                             "getNearestVertexAndSimplexIndicesWithCoordinates"})

NextFirstTouch ==
  \/ \E t \in Callers : MapSize(t)
  \/ \E t \in Callers : MapAlloc(t)
  \/ \E t \in Callers : MapLower(t)
  \/ \E t \in Callers : MapUpper(t)
  \/ \E t \in Callers : MapLoop(t)
  \/ \E t \in Callers : ContainsBounds(t)
  \/ \E t \in Callers : ContainsSize(t)
  \/ \E t \in Callers : ContainsCandidates(t)
  \/ \E t \in Callers : ContainsFirst(t)
  \/ \E t \in Callers : ContainsFull(t)
  \/ \E t \in Callers : LocateNearest(t)
  \/ \E t \in Callers : LocateSize(t)
  \/ \E t \in Callers : LocateCandidates(t)
  \/ \E t \in Callers : LocateLoop(t)
  \/ \E t \in Callers : WeightsVolumes(t)
  \/ \E t \in Callers : WeightsCopy(t)

SpecFirstTouch == InitFirstTouch /\ [][NextFirstTouch]_vars

(* Two concurrent read queries on a mesh whose incidence cache and         *)
(* memoized volume are each either unset, as after construction, or set,   *)
(* as after getVerticesToSimplicesMap and after computeVolume or getVolume *)
InitReaders ==
  /\ InitMeshOfCallers
  /\ \/ /\ verticesToSimplices_ = <<>>
        /\ lowerBoundingBoxSimplices_ = <<>>
        /\ upperBoundingBoxSimplices_ = <<>>
     \/ /\ verticesToSimplices_ = BuildVerticesToSimplices(vertices_, simplices_)
        /\ lowerBoundingBoxSimplices_ = BuildLowerBoundingBox(dimension_, vertices_, simplices_)
        /\ upperBoundingBoxSimplices_ = BuildUpperBoundingBox(dimension_, vertices_, simplices_)
  /\ \/ isAlreadyComputedVolume_ = FALSE /\ volume_ = 0
     \/ /\ isAlreadyComputedVolume_ = TRUE
        /\ volume_ \in {0, SumOfSimplexVolumes(dimension_, vertices_, simplices_)}
  /\ calls \in PairsOfCalls({"contains", "getNearestVertexIndex", "computeVolume",
                             "getVolume",
                             "getNearestVertexAndSimplexIndicesWithCoordinates"})

NextReaders ==
  \/ \E t \in Callers : MapSize(t)
  \/ \E t \in Callers : MapAlloc(t)
  \/ \E t \in Callers : MapLower(t)
  \/ \E t \in Callers : MapUpper(t)
  \/ \E t \in Callers : MapLoop(t)
  \/ \E t \in Callers : ContainsBounds(t)
  \/ \E t \in Callers : ContainsSize(t)
  \/ \E t \in Callers : ContainsCandidates(t)
  \/ \E t \in Callers : ContainsFirst(t)
  \/ \E t \in Callers : ContainsFull(t)
  \/ \E t \in Callers : LocateNearest(t)
  \/ \E t \in Callers : LocateSize(t)
  \/ \E t \in Callers : LocateCandidates(t)
  \/ \E t \in Callers : LocateLoop(t)
  \/ \E t \in Callers : NearestIndex(t)
  \/ \E t \in Callers : VolumeReduction(t)
  \/ \E t \in Callers : VolumeFlag(t)
  \/ \E t \in Callers : GetVolumeTest(t)
  \/ \E t \in Callers : GetVolumeStore(t)
  \/ \E t \in Callers : GetVolumeReturn(t)

SpecReaders == InitReaders /\ [][NextReaders]_vars

(******************************** export ***********************************)
(* Mesh::streamToVTKFormat.  The text is carried as its sections: the      *)
(* POINTS rows (each vertex padded to three coordinates with "0.0"), the   *)
(* two numbers of the CELLS line, the cell rows (a count followed by       *)
(* vertex indices), the CELL_TYPES rows, and the precision the numbers     *)
(* were written with.                                                      *)

(* the loop that infers the number of vertices per simplex from the first  *)
(* simplex: it stops at the first entry equal to the one before it         *)
RECURSIVE VerticesPerSimplexFrom(_, _, _)
VerticesPerSimplexFrom(simplex, verticesPerSimplex, lastIndex) ==
  IF verticesPerSimplex <= dimension_ /\ simplex[verticesPerSimplex + 1] # lastIndex
  THEN VerticesPerSimplexFrom(simplex, verticesPerSimplex + 1, simplex[verticesPerSimplex + 1])
  ELSE verticesPerSimplex

CellType(verticesPerSimplex) ==
  IF verticesPerSimplex = 1 THEN 1
  ELSE IF verticesPerSimplex = 2 THEN 3
  ELSE IF verticesPerSimplex = 3 THEN 5
  ELSE IF verticesPerSimplex = 4 THEN 10
  ELSE 0

VTKPoints ==
  [i \in 1 .. getVerticesNumber |->
     [j \in 1 .. 3 |-> IF j <= dimension_ THEN vertices_[i][j] ELSE "0.0"]]

VTKStream(simplices, precision) ==
  LET numVertices == getVerticesNumber
      numSimplices == Len(simplices)
      verticesPerSimplex == VerticesPerSimplexFrom(simplices[1], 1, simplices[1][1])
  IN IF numSimplices = 0
     THEN [points |-> VTKPoints, precision |-> precision,
           cellsHeader |-> <<numVertices, 2 * numVertices>>,
           cells |-> [i \in 1 .. numVertices |-> <<1, i - 1>>],
           cellTypes |-> [i \in 1 .. numVertices |-> 1]]
     ELSE [points |-> VTKPoints, precision |-> precision,
           cellsHeader |-> <<numSimplices, (verticesPerSimplex + 1) * numSimplices>>,
           cells |-> [i \in 1 .. numSimplices |->
                        <<verticesPerSimplex>>
                        \o [j \in 1 .. verticesPerSimplex |-> simplices[i][j]]],
           cellTypes |-> [i \in 1 .. numSimplices |-> CellType(verticesPerSimplex)]]

(* the export leaving the precision at 16                                  *)
PrecisionAfterExport_notRestored(oldPrecision) == 16

(* The platform precision when the export returns: set to 16 at the start, *)
(* set back to oldPrecision before each of the two returns                 *)
PrecisionAfterExport(oldPrecision) ==
  LET duringExport == 16
  IN IF duringExport = oldPrecision THEN duringExport ELSE oldPrecision

(* streamToVTKFormat() on the simplices of the mesh; the dimension test    *)
(* comes before the precision is read                                      *)
streamToVTKFormat ==
  /\ isValid
  /\ IF dimension_ > 3
     THEN /\ last' = Thrown("streamToVTKFormat", <<>>, "InvalidDimension",
                            [dimension |-> dimension_])
          /\ numericalPrecision' = numericalPrecision
     ELSE /\ last' = Obs("streamToVTKFormat", <<>>, VTKStream(simplices_, 16), "none", NoPre)
          /\ numericalPrecision' = PrecisionAfterExport(numericalPrecision)
  /\ UNCHANGED <<mesh, calls>>

(* The export of meshes of dimension 1 to 4 made of the corners of a       *)
(* simplex, under both platform precisions; a simplex lists its indices in *)
(* non-decreasing order, repeated or not (checkValidity accepts both)      *)
ExportTuples(d) ==
  IF d > 3 THEN {[j \in 1 .. (d + 1) |-> j - 1]}
  ELSE {t \in [1 .. (d + 1) -> 0 .. d] : \A j \in 1 .. d : t[j] <= t[j + 1]}

InitExport ==
  /\ dimension_ \in 1 .. 4
  /\ vertices_ \in {CornerVertices(dimension_, h) : h \in Coords}
  /\ simplices_ \in UNION {[1 .. m -> ExportTuples(dimension_)] : m \in 0 .. MaxSimplices}
  /\ tree_ = <<>>
  /\ verticesToSimplices_ = <<>>
  /\ lowerBoundingBoxSimplices_ = <<>>
  /\ upperBoundingBoxSimplices_ = <<>>
  /\ isAlreadyComputedVolume_ = FALSE
  /\ volume_ = 0
  /\ last = Obs("Mesh", <<>>, <<>>, "none", NoPre)
  /\ calls = <<>>
  /\ numericalPrecision \in Precisions

StreamToVTKFormat == streamToVTKFormat

SpecExport == InitExport /\ [][StreamToVTKFormat]_vars

(******************************** import ***********************************)
(* Mesh::ImportFromMSHFile.  A file is absent, or holds a sequence of      *)
(* numbers separated by blanks.  std::ifstream: opening an absent file     *)
(* sets failbit; opening an existing file leaves the stream good, with     *)
(* eofbit clear whatever the length of the file, since eofbit is set only  *)
(* by a read that reaches the end; an extraction that finds no number      *)
(* fails and every later one fails too, leaving its target as it was.      *)
StreamOpen(file) == [fail |-> ~file.exists, eof |-> FALSE, tokens |-> file.tokens]

(* file.eof() right after the stream is opened                             *)
StreamEof(stream) == stream.eof

(* The n-th number "file >> target" reads, or the value target was         *)
(* initialised with once the extractions fail                              *)
Extracted(tokens, n, initial) == IF n <= Len(tokens) THEN tokens[n] ELSE initial

(* The default mesh Mesh(): dimension 1, one vertex at the origin          *)
DefaultVertices == <<<<0>>>>

(* The vertices and the simplices parsed after the header of three numbers *)
ParsedVertices(tokens, verticesNumber) ==
  [i \in 1 .. verticesNumber |->
     <<Extracted(tokens, 3 + 3 * (i - 1) + 1, 0), Extracted(tokens, 3 + 3 * (i - 1) + 2, 0)>>]

ParsedSimplices(tokens, verticesNumber, simplicesNumber) ==
  [i \in 1 .. simplicesNumber |->
     [k \in 1 .. 3 |-> Extracted(tokens, 3 + 3 * verticesNumber + 4 * (i - 1) + k, 0) - 1]]

ImportFromMSHFile(file) ==
  LET stream == StreamOpen(file)
      verticesNumber == Extracted(stream.tokens, 1, 0)
      simplicesNumber == Extracted(stream.tokens, 2, 0)
      vertices == ParsedVertices(stream.tokens, verticesNumber)
      simplices == ParsedSimplices(stream.tokens, verticesNumber, simplicesNumber)
  IN /\ IF stream.fail
        THEN /\ last' = Thrown("ImportFromMSHFile", file, "FileNotFound", <<>>)
             /\ UNCHANGED <<dimension_, vertices_, simplices_>>
        ELSE IF StreamEof(stream)
        THEN /\ last' = Obs("ImportFromMSHFile", file, [log |-> <<"File is empty">>], "none", NoPre)
             /\ dimension_' = 1
             /\ vertices_' = DefaultVertices
             /\ simplices_' = <<>>
        ELSE /\ last' = Obs("ImportFromMSHFile", file,
                            [log |-> <<"Number of vertices and of simplices">>
                                     \o [i \in 1 .. verticesNumber |-> "vertex"]
                                     \o [i \in 1 .. simplicesNumber |-> "simplex"]],
                            "none", NoPre)
             /\ dimension_' = 2
             /\ vertices_' = vertices
             /\ simplices_' = simplices
     /\ tree_' = <<>>
     /\ verticesToSimplices_' = <<>>
     /\ lowerBoundingBoxSimplices_' = <<>>
     /\ upperBoundingBoxSimplices_' = <<>>
     /\ isAlreadyComputedVolume_' = FALSE
     /\ volume_' = 0
     /\ UNCHANGED <<calls, numericalPrecision>>

(* The files given to the import: an absent file, an empty file, and the   *)
(* files written for up to MaxVertices vertices of dimension 2 and up to   *)
(* MaxSimplices triangles numbered from 1, each row ending with its label  *)
MSHTriangles == {<<1, 2, 3>>, <<1, 3, 2>>, <<2, 3, 1>>, <<3, 2, 1>>}

RECURSIVE Rows(_, _)
Rows(rows, label) ==
  IF rows = <<>> THEN <<>> ELSE Head(rows) \o <<label>> \o Rows(Tail(rows), label)

MSHFiles ==
  {[exists |-> FALSE, tokens |-> <<>>], [exists |-> TRUE, tokens |-> <<>>]}
  \cup {[exists |-> TRUE,
         tokens |-> <<Len(vertices), Len(simplices), 0>> \o Rows(vertices, 0) \o Rows(simplices, 0)] :
          vertices \in Samples(2),
          simplices \in UNION {[1 .. m -> MSHTriangles] : m \in 0 .. MaxSimplices}}

(* The holder of the mesh the import returns starts as the default mesh    *)
InitImport ==
  /\ dimension_ = 1
  /\ vertices_ = DefaultVertices
  /\ simplices_ = <<>>
  /\ tree_ = <<>>
  /\ verticesToSimplices_ = <<>>
  /\ lowerBoundingBoxSimplices_ = <<>>
  /\ upperBoundingBoxSimplices_ = <<>>
  /\ isAlreadyComputedVolume_ = FALSE
  /\ volume_ = 0
  /\ last = Obs("Mesh", <<>>, <<>>, "none", NoPre)
  /\ Quiescent

ImportFromMSH == \E file \in MSHFiles : ImportFromMSHFile(file)

SpecImport == InitImport /\ [][ImportFromMSH]_vars

(************************** dimension of the queries ***********************)
(* The points the callers pass: every point of the dimension of the mesh,  *)
(* and one point of each neighbouring dimension, which the calls never read *)
QueryPoints ==
  Points(dimension_) \cup {[k \in 1 .. n |-> 0] : n \in {dimension_ - 1, dimension_ + 1}}

(* A Sample passed to the batched query: its dimension and its points;     *)
(* every sample of the dimension of the mesh, and one sample of each size  *)
(* for the other dimensions, whose points the call never reads             *)
QuerySamples ==
  {[dimension |-> dimension_, data |-> data] : data \in Samples(dimension_)}
  \cup {[dimension |-> n, data |-> [i \in 1 .. size |-> [k \in 1 .. n |-> 0]]] :
          n \in {dimension_ - 1, dimension_ + 1}, size \in 0 .. MaxVertices}

(* the policy writing the index found for the first point in every entry   *)
MeshNearestPolicy_firstPoint(data) ==
  {[i \in 1 .. Len(data) |-> index] : index \in NearestVertexIndices(data[1])}

(* MeshNearestPolicy under TBB::ParallelFor: the tables of indices the     *)
(* blocks can fill, indices_[i] = mesh_.getNearestVertexIndex(points_[i])  *)
RECURSIVE MeshNearestPolicy(_)
MeshNearestPolicy(data) ==
  IF data = <<>> THEN {<<>>}
  ELSE {<<index>> \o indices : index \in NearestVertexIndices(Head(data)),
                               indices \in MeshNearestPolicy(Tail(data))}

(* Mesh::getNearestVertexIndex(const Sample & points)                      *)
getNearestVertexIndexSample(points) ==
  /\ IF points.dimension # dimension_
     THEN last' = Thrown("getNearestVertexIndexSample", points, "InvalidArgument", <<>>)
     ELSE IF Len(points.data) = 0
     THEN last' = Obs("getNearestVertexIndexSample", points, <<>>, "none", NoPre)
     ELSE \E indices \in MeshNearestPolicy(points.data) :
            last' = Obs("getNearestVertexIndexSample", points, indices, "none", NoPre)
  /\ UNCHANGED mesh

(* Mesh::getNearestVertexAndSimplexIndicesWithCoordinates called with the  *)
(* caller's vector coordinates: the test of the dimension comes before     *)
(* every other statement, coordinates = Point(0) included                  *)
getNearestVertexAndSimplexIndicesWithCoordinatesOfDimension(point, coordinates) ==
  IF Len(point) # dimension_
  THEN /\ last' = Obs("getNearestVertexAndSimplexIndicesWithCoordinates", point,
                      [indices |-> <<>>, coordinates |-> coordinates], "InvalidArgument",
                      [coordinates |-> coordinates])
       /\ UNCHANGED mesh
  ELSE \E nearestIndex \in NearestVertexIndices(point) :
         getNearestVertexAndSimplexIndicesWithCoordinates(point, nearestIndex)

GetNearestVertexIndexOfDimension ==
  \E point \in QueryPoints : getNearestVertexIndex(point) /\ Sequential

GetNearestVertexIndexSample ==
  \E points \in QuerySamples : getNearestVertexIndexSample(points) /\ Sequential

GetNearestVertexAndSimplexIndicesWithCoordinatesOfDimension ==
  \E point \in QueryPoints :
    \E coordinates \in {<<>>, <<1, 0>>} :
      getNearestVertexAndSimplexIndicesWithCoordinatesOfDimension(point, coordinates) /\ Sequential

NextQueryDimension ==
  \/ GetVerticesToSimplicesMap
  \/ GetNearestVertexIndexOfDimension
  \/ GetNearestVertexIndexSample
  \/ GetNearestVertexAndSimplexIndicesWithCoordinatesOfDimension

(* Mesh(vertices, simplices) on vertices of dimension 1 in non-decreasing  *)
(* order, equal vertices included, the simplices being the first segments  *)
(* of the chain 0-1, 1-2, ...                                              *)
InitQueryDimension ==
  /\ dimension_ = 1
  /\ vertices_ \in {v \in Samples(dimension_) :
                      \A n \in 1 .. (Len(v) - 1) : v[n][1] <= v[n + 1][1]}
  /\ simplices_ \in {[n \in 1 .. m |-> <<n - 1, n>>] : m \in 0 .. MaxSimplices}
  /\ tree_ = <<>>
  /\ verticesToSimplices_ = <<>>
  /\ lowerBoundingBoxSimplices_ = <<>>
  /\ upperBoundingBoxSimplices_ = <<>>
  /\ isAlreadyComputedVolume_ = FALSE
  /\ volume_ = 0
  /\ last = Obs("Mesh", <<>>, <<>>, "none", NoPre)
  /\ Quiescent

SpecQueryDimension == InitQueryDimension /\ [][NextQueryDimension]_vars

(******************************* P1 Gram ***********************************)
(* SpecFunc::Gamma on the integers: Gamma(n) = (n - 1)!                    *)
RECURSIVE Gamma(_)
Gamma(n) == IF n <= 1 THEN 1 ELSE (n - 1) * Gamma(n - 1)

(* elementaryGram(j, k), as a numerator over Gamma(simplexSize + 2): every *)
(* entry 1, the diagonal doubled                                           *)
elementaryGram(j, k) == IF j = k THEN 2 ELSE 1

(* What the loops of computeP1Gram add to gram(newJ, newK) from simplex i  *)
(* on: delta * elementaryGram(j, k) for every pair of positions (j, k) of  *)
(* the simplex holding newJ and newK.  Numerators over                     *)
(* 2 * Gamma(simplexSize + 2).                                             *)
RECURSIVE GramEntryFrom(_, _, _)
GramEntryFrom(newJ, newK, i) ==
  IF i >= getSimplicesNumber THEN 0
  ELSE LET simplex == simplices_[i + 1]
           simplexSize == dimension_ + 1
           delta == computeSimplexVolume(i)
       IN SeqSum([j \in 1 .. simplexSize |->
                    SeqSum([k \in 1 .. simplexSize |->
                              IF simplex[j] = newJ /\ simplex[k] = newK
                              THEN delta * elementaryGram(j, k) ELSE 0])])
          + GramEntryFrom(newJ, newK, i + 1)

(* Mesh::computeP1Gram: the matrix as rows of numerators over              *)
(* 2 * Gamma(dimension_ + 3), the 0x0 matrix when there is no simplex      *)
computeP1Gram ==
  /\ isValid
  /\ IF getSimplicesNumber = 0
     THEN last' = Obs("computeP1Gram", <<>>, <<>>, "none", NoPre)
     ELSE last' = Obs("computeP1Gram", <<>>,
                      [newJ \in 1 .. getVerticesNumber |->
                         [newK \in 1 .. getVerticesNumber |-> GramEntryFrom(newJ - 1, newK - 1, 0)]],
                      "none", NoPre)
  /\ UNCHANGED mesh

(* Meshes of dimension 1 and 2 on dimension + 1 vertices, with up to       *)
(* MaxSimplices simplices listing them in any order                        *)
InitGram ==
  /\ dimension_ \in {1, 2}
  /\ vertices_ \in [1 .. (dimension_ + 1) -> Points(dimension_)]
  /\ simplices_ \in UNION {[1 .. m -> {t \in [1 .. (dimension_ + 1) -> 0 .. dimension_] :
                                          \A j, k \in 1 .. (dimension_ + 1) : t[j] = t[k] => j = k}] :
                              m \in 0 .. MaxSimplices}
  /\ tree_ = <<>>
  /\ verticesToSimplices_ = <<>>
  /\ lowerBoundingBoxSimplices_ = <<>>
  /\ upperBoundingBoxSimplices_ = <<>>
  /\ isAlreadyComputedVolume_ = FALSE
  /\ volume_ = 0
  /\ last = Obs("Mesh", <<>>, <<>>, "none", NoPre)
  /\ Quiescent

ComputeP1Gram == computeP1Gram /\ Sequential

SpecGram == InitGram /\ [][ComputeP1Gram]_vars

(*************************** incidence invariant ***************************)
(* The simplex sets checkValidity accepts on a table of MaxVertices        *)
(* vertices: tuples of dimension + 1 indices in range, repeated or not     *)
IndicesCollectionsInRange(d) ==
  UNION {[1 .. m -> [1 .. (d + 1) -> 0 .. (MaxVertices - 1)]] : m \in 0 .. MaxSimplices}

SetSimplicesInRange ==
  \E simplices \in IndicesCollectionsInRange(dimension_) : setSimplices(simplices) /\ Sequential

(* Mesh(vertices, simplices), valid, with at least one vertex              *)
InitIncidence ==
  /\ dimension_ \in Dimensions
  /\ vertices_ \in Samples(dimension_) \ {<<>>}
  /\ simplices_ \in IndicesCollectionsInRange(dimension_)
  /\ isValid
  /\ tree_ = <<>>
  /\ verticesToSimplices_ = <<>>
  /\ lowerBoundingBoxSimplices_ = <<>>
  /\ upperBoundingBoxSimplices_ = <<>>
  /\ isAlreadyComputedVolume_ = FALSE
  /\ volume_ = 0
  /\ last = Obs("Mesh", <<>>, <<>>, "none", NoPre)
  /\ Quiescent

NextIncidence ==
  \/ SetVertices
  \/ SetSimplicesInRange
  \/ GetVerticesToSimplicesMap
  \/ ComputeWeights
  \/ Contains
  \/ GetNearestVertexAndSimplexIndicesWithCoordinates

SpecIncidence == InitIncidence /\ [][NextIncidence]_vars

(************************ direct simplex membership ************************)
(* A direct call of Mesh::checkPointInSimplex (op without coordinates) or  *)
(* Mesh::checkPointInSimplexWithCoordinates on a valid mesh.  With the     *)
(* bounding boxes cached, lowerBoundingBoxSimplices_(index, i) is read     *)
(* before buildSimplexMatrix tests the index; Sample::operator() does not  *)
(* test it, so past the last row the read is undefined: the call stops, or *)
(* goes on with the value read, which is outside the box (return false) or *)
(* inside it (buildSimplexMatrix then throws).                             *)
checkPointInSimplexCall(op, point, index) ==
  /\ isValid
  /\ IF Len(lowerBoundingBoxSimplices_) > 0 /\ index >= Len(lowerBoundingBoxSimplices_)
     THEN \/ last' = Thrown(op, [point |-> point, index |-> index], "undefined", <<>>)
          \/ last' = Obs(op, [point |-> point, index |-> index], FALSE, "none", NoPre)
          \/ last' = Thrown(op, [point |-> point, index |-> index], "InvalidArgument",
                            [index |-> index, bound |-> getSimplicesNumber])
     ELSE LET r == checkPointInSimplex(point, index, lowerBoundingBoxSimplices_,
                                       upperBoundingBoxSimplices_)
          IN IF r \in {"true", "false"}
             THEN last' = Obs(op, [point |-> point, index |-> index], r = "true", "none", NoPre)
             ELSE last' = Thrown(op, [point |-> point, index |-> index], r,
                                 [index |-> index, bound |-> getSimplicesNumber])
  /\ UNCHANGED mesh

CheckPointInSimplex ==
  \E op \in {"checkPointInSimplex", "checkPointInSimplexWithCoordinates"} :
    \E point \in Points(dimension_) :
      \E index \in 0 .. MaxSimplices : checkPointInSimplexCall(op, point, index) /\ Sequential

NextMembership ==
  \/ SetSimplices
  \/ GetVerticesToSimplicesMap
  \/ CheckPointInSimplex

SpecMembership == Init /\ [][NextMembership]_vars

(***************************************************************************)
(*                             Properties                                  *)
(***************************************************************************)
SquaredDistance(vertices, i, point) == normSquare(Minus(point, vertices[i + 1]))

(* The barycentric coordinates of point in simplex index exist and all lie *)
(* in [0, 1]                                                               *)
SimplexContains(point, index) ==
  LET a == solveLinearSystem(buildSimplexMatrix(index), Append(point, 1))
  IN a.den # 0 /\ CoordinatesInUnitInterval(a)

MeshVolume == SumOfSimplexVolumes(dimension_, vertices_, simplices_)

(* C1: whenever contains(p) returns, it returns true if and only if some   *)
(* simplex of the current mesh has barycentric coordinates for p that all  *)
(* lie in [0,1].                                                           *)
C1_Claim ==
  (last.op = "contains" /\ last.err = "none")
    => (last.ret <=> \E i \in 0 .. (getSimplicesNumber - 1) : SimplexContains(last.arg, i))

(* C2: computeSimplexVolume returns |x1 - x0| in 1D and, in 2D, half the   *)
(* absolute value of the cross product of the edge vectors B - A and C - A *)
(* (both sides are numerators over 2).                                     *)
C2_Claim ==
  (last.op = "computeSimplexVolume" /\ last.err = "none")
    => LET A == vertices_[simplices_[last.arg + 1][1] + 1]
           B == vertices_[simplices_[last.arg + 1][2] + 1]
       IN IF dimension_ = 1
          THEN last.ret = 2 * Abs(B[1] - A[1])
          ELSE LET C == vertices_[simplices_[last.arg + 1][3] + 1]
               IN last.ret = Abs((B[1] - A[1]) * (C[2] - A[2]) - (B[2] - A[2]) * (C[1] - A[1]))

(* C3: once the volume is memoized, a setSimplices call that changes the   *)
(* simplex set leaves the mesh in a state where the next getVolume()       *)
(* returns the sum of the per-simplex volumes of the new simplex set, not  *)
(* the value memoized for the old one.                                     *)
C3_Claim ==
  [][(/\ isValid
      /\ isAlreadyComputedVolume_
      /\ volume_ = MeshVolume
      /\ last'.op = "setSimplices"
      /\ simplices_' # simplices_
      /\ isValid')
     => \A split \in 0 .. Len(simplices_') : getVolumeValue(split)' = MeshVolume']_vars

(* C4: when the validity flag is set by a volume computation, volume_ is   *)
(* the sum that computation returned, so that a getVolume() that follows   *)
(* computeVolume() returns the same value.                                 *)
C4_Claim ==
  /\ last.op \in {"computeVolume", "getVolume"}
       => (isAlreadyComputedVolume_ /\ volume_ = last.ret)
  /\ last.op = "computeVolume"
       => \A split \in 0 .. getSimplicesNumber : getVolumeValue(split) = last.ret

(* C5: once the volume is memoized, any setVertices or setVertex call      *)
(* clears the validity flag, so that the next getVolume() returns the sum  *)
(* of the per-simplex volumes over the current vertices.                   *)
C5_Thm ==
  [][(isAlreadyComputedVolume_ /\ last'.op \in {"setVertices", "setVertex"})
     => (/\ ~isAlreadyComputedVolume_'
         /\ isValid' => \A split \in 0 .. Len(simplices_') :
                          getVolumeValue(split)' = MeshVolume')]_vars

(* a vertex setter has acted on a memoized volume that no longer is the    *)
(* volume of the mesh                                                      *)
C5_Witness ==
  /\ last.op \in {"setVertices", "setVertex"}
  /\ last.err = "none"
  /\ last.pre.memo
  /\ isValid
  /\ volume_ # MeshVolume
  /\ ~isAlreadyComputedVolume_

(* C6: a nearest-vertex query answered by the spatial index returns a      *)
(* vertex of the current table at the minimal distance the brute-force     *)
(* scan of the current vertices finds (the same index when it is unique).  *)
C6_Claim ==
  (last.op = "getNearestVertexIndex" /\ last.err = "none" /\ ~KDTreeIsEmpty(tree_))
    => /\ last.ret < getVerticesNumber
       /\ \A b \in BruteForceNearestIndices(vertices_, last.arg) :
            SquaredDistance(vertices_, last.ret, last.arg) = SquaredDistance(vertices_, b, last.arg)

(* C7: setSimplices with the current value changes nothing; with another   *)
(* value it replaces the simplex set and empties the incidence map and     *)
(* both bounding-box tables; the vertices and the spatial index are left   *)
(* unchanged in both cases.                                                *)
C7_Thm ==
  [][last'.op = "setSimplices"
     => /\ UNCHANGED <<dimension_, vertices_, tree_>>
        /\ IF last'.arg = simplices_
           THEN UNCHANGED <<simplices_, verticesToSimplices_,
                            lowerBoundingBoxSimplices_, upperBoundingBoxSimplices_>>
           ELSE /\ simplices_' = last'.arg
                /\ verticesToSimplices_' = <<>>
                /\ lowerBoundingBoxSimplices_' = <<>>
                /\ upperBoundingBoxSimplices_' = <<>>]_vars

(* setSimplices was given the current value on a mesh whose incidence map, *)
(* bounding boxes and spatial index are populated                          *)
C7_Witness ==
  /\ last.op = "setSimplices"
  /\ last.ret = FALSE
  /\ Len(verticesToSimplices_) > 0
  /\ Len(lowerBoundingBoxSimplices_) > 0
  /\ Len(upperBoundingBoxSimplices_) > 0
  /\ ~KDTreeIsEmpty(tree_)

CachesEmpty ==
  /\ KDTreeIsEmpty(tree_)
  /\ Len(verticesToSimplices_) = 0
  /\ Len(lowerBoundingBoxSimplices_) = 0
  /\ Len(upperBoundingBoxSimplices_) = 0
  /\ ~isAlreadyComputedVolume_

C10_Claim ==
  [][(last'.op = "setVertex" /\ last'.arg >= getVerticesNumber)
     => (last'.err # "none" /\ UNCHANGED mesh)]_vars

(* every simplex has dimension + 1 entries, each a known vertex             *)
WellFormedSimplices ==
  \A i \in 1 .. getSimplicesNumber :
    /\ Len(simplices_[i]) = dimension_ + 1
    /\ \A j \in 1 .. Len(simplices_[i]) : simplices_[i][j] < getVerticesNumber

NearestSet(point) ==
  {i \in 0 .. (getVerticesNumber - 1) :
     \A j \in 0 .. (getVerticesNumber - 1) :
       SquaredDistance(vertices_, i, point) <= SquaredDistance(vertices_, j, point)}

(* C12: on a non-empty vertex table and an empty spatial index, the        *)
(* brute-force nearest-vertex query returns the lowest index among the     *)
(* vertices at minimal squared distance, which is the result of the        *)
(* sequential left-to-right scan, whatever the cuts of the range (empty    *)
(* blocks included) and the order of the joins.                            *)
C12_Thm ==
  (/\ last.op = "getNearestVertexIndex"
   /\ last.err = "none"
   /\ getVerticesNumber > 0)
    => /\ last.ret = SetMin(NearestSet(last.arg))
       /\ last.ret = NearestFunctorRange(vertices_, last.arg, 0, getVerticesNumber,
                                         NearestFunctorInit).minIndex_

(* the query ran on a tie between the first two vertices, the range cut    *)
(* between them, with an empty block, the right pair joined first          *)
C12_Witness ==
  /\ last.op = "getNearestVertexIndex"
  /\ last.err = "none"
  /\ getVerticesNumber > 1
  /\ {0, 1} \subseteq NearestSet(last.arg)
  /\ last.pre.cuts = <<1, 1>>
  /\ ~last.pre.leftFirst
  /\ last.ret = 0

(* C13: getNearestVertexAndSimplexIndicesWithCoordinates(p) returns the    *)
(* nearest vertex alone with empty coordinates when no simplex of the      *)
(* nearest vertex's incidence list contains p (whatever the other          *)
(* simplices), and else the nearest vertex, the first simplex of that list *)
(* that contains p, and the dimension + 1 barycentric coordinates of p in  *)
(* it, all in [0,1].                                                       *)
C13_Claim ==
  (last.op = "getNearestVertexAndSimplexIndicesWithCoordinates" /\ last.err = "none")
    => LET nearest == last.ret.indices[1]
           list == IncidenceList(simplices_, nearest, 0)
           containing == {k \in 1 .. Len(list) : SimplexContains(last.arg, list[k])}
       IN /\ nearest \in NearestSet(last.arg)
          /\ IF containing = {}
             THEN last.ret = [indices |-> <<nearest>>, coordinates |-> <<>>]
             ELSE /\ last.ret.indices = <<nearest, list[SetMin(containing)]>>
                  /\ last.ret.coordinates =
                       solveLinearSystem(buildSimplexMatrix(list[SetMin(containing)]),
                                         Append(last.arg, 1))
                  /\ Len(last.ret.coordinates.num) = dimension_ + 1
                  /\ CoordinatesInUnitInterval(last.ret.coordinates)

(* the simplices that list vertex v                                        *)
SimplicesOf(v) ==
  {i \in 0 .. (getSimplicesNumber - 1) :
     \E j \in 1 .. Len(simplices_[i + 1]) : simplices_[i + 1][j] = v}

(* C14: on a valid mesh the weights of computeWeights sum to the total     *)
(* volume: dimension + 1 times their sum is dimension + 1 times the sum of *)
(* the simplex volumes (the weights are numerators over                    *)
(* 2 * (dimension + 1)), and a vertex of no simplex has weight 0.          *)
C14_Thm ==
  (last.op = "computeWeights" /\ last.err = "none")
    => /\ Len(last.ret) = getVerticesNumber
       /\ SeqSum(last.ret) = (dimension_ + 1) * MeshVolume
       /\ \A v \in 0 .. (getVerticesNumber - 1) : SimplicesOf(v) = {} => last.ret[v + 1] = 0

(* the weights were computed on a mesh of positive volume that has a       *)
(* vertex of no simplex, after a setVertex that left the caches populated  *)
C14_Witness ==
  /\ last.op = "computeWeights"
  /\ last.err = "none"
  /\ MeshVolume > 0
  /\ \E v \in 0 .. (getVerticesNumber - 1) : SimplicesOf(v) = {}
  /\ Len(lowerBoundingBoxSimplices_) > 0
  /\ lowerBoundingBoxSimplices_ # BuildLowerBoundingBox(dimension_, vertices_, simplices_)

(* the bounding-box pre-filter of checkPointInSimplexWithCoordinates       *)
(* rejects point for simplex index                                         *)
BoxRejects(point, index) ==
  /\ Len(lowerBoundingBoxSimplices_) > 0
  /\ \E k \in 1 .. dimension_ :
       \/ point[k] < lowerBoundingBoxSimplices_[index + 1][k]
       \/ point[k] > upperBoundingBoxSimplices_[index + 1][k]

(* C15: after a setVertex on a valid mesh whose incidence map and bounding *)
(* boxes are cached, every cached bounding box still encloses all current  *)
(* vertices of its simplex, and the pre-filter rejects a point for a       *)
(* simplex only if the barycentric test on that simplex rejects it too.    *)
C15_Claim ==
  (/\ last.op = "setVertex"
   /\ last.err = "none"
   /\ isValid
   /\ Len(verticesToSimplices_) > 0
   /\ Len(lowerBoundingBoxSimplices_) > 0)
    => \A i \in 0 .. (getSimplicesNumber - 1) :
         /\ \A j \in 1 .. (dimension_ + 1) : \A k \in 1 .. dimension_ :
              /\ lowerBoundingBoxSimplices_[i + 1][k] <= vertices_[simplices_[i + 1][j] + 1][k]
              /\ vertices_[simplices_[i + 1][j] + 1][k] <= upperBoundingBoxSimplices_[i + 1][k]
         /\ \A point \in Points(dimension_) :
              BoxRejects(point, i) => ~SimplexContains(point, i)

(* C16: after any sequence of setVertices, setVertex and setSimplices      *)
(* calls, the dimension of the mesh is the one fixed at construction and   *)
(* every stored vertex has exactly that many coordinates.                  *)
C16_Claim ==
  /\ [][dimension_' = dimension_]_vars
  /\ [](\A v \in 1 .. getVerticesNumber : Len(vertices_[v]) = dimension_)

(* the k-th face of the graph draw3D returned, in both output modes        *)
DrawnFace(ret, k) ==
  IF ret.graph # <<>> /\ ret.graph[1].kind = "PolygonArray"
  THEN SubSeq(ret.graph[1].data, 3 * k - 2, 3 * k)
  ELSE ret.graph[k].data

DrawnFaces(ret) ==
  IF ret.graph # <<>> /\ ret.graph[1].kind = "PolygonArray"
  THEN Len(ret.graph[1].data) \div 3
  ELSE Len(ret.graph)

(* how many entries of the sequence seq are equal to x                     *)
Count(seq, x) == Cardinality({k \in 1 .. Len(seq) : seq[k] = x})

(* C18: draw3D emits every surviving triangle exactly once, from the       *)
(* largest depth key to the smallest, the depth key being the sum of the   *)
(* three transformed third coordinates of the triangle: a triangle emitted *)
(* later has a key at most that of one emitted earlier, and the k-th       *)
(* polygon of the graph, or the k-th triple of rows of the polygon array,  *)
(* is the face of the k-th emitted triangle.                               *)
C18_Thm ==
  (last.op = "draw3D" /\ last.err = "none")
    => LET e == last.ret.emitted
           visu == VisuVertices(last.arg.rotation)
           surviving == TrianglesAndDepth(visu, verticesToSimplices_, last.arg.backfaceCulling, 0)
       IN /\ Len(e) = Len(surviving)
          /\ \A k \in 1 .. Len(surviving) : Count(e, surviving[k]) = Count(surviving, surviving[k])
          /\ \A k \in 1 .. Len(e) :
               e[k].first = visu[e[k].second[1] + 1][3] + visu[e[k].second[2] + 1][3]
                            + visu[e[k].second[3] + 1][3]
          /\ \A j, k \in 1 .. Len(e) : j < k => e[k].first <= e[j].first
          /\ DrawnFaces(last.ret) = Len(e)
          /\ last.arg.drawEdge <=> (Len(last.ret.graph) = Len(e) /\
                                      \A k \in 1 .. Len(e) : last.ret.graph[k].kind = "Polygon")
          /\ \A k \in 1 .. Len(e) :
               DrawnFace(last.ret, k) = Face(visu, e[k].second, last.ret.clippedRho2)

(* draw3D emitted, as one polygon array and after a rotation that is not   *)
(* diagonal, triangles of at least two depth keys, two of them on a tie    *)
C18_Witness ==
  /\ last.op = "draw3D"
  /\ last.err = "none"
  /\ ~last.arg.drawEdge
  /\ ~isDiagonal(last.arg.rotation)
  /\ Len(last.ret.emitted) >= 4
  /\ last.ret.emitted[1].first > last.ret.emitted[Len(last.ret.emitted)].first
  /\ \E j, k \in 1 .. Len(last.ret.emitted) :
       j # k /\ last.ret.emitted[j].first = last.ret.emitted[k].first

(* the vertices of a triangle or of a simplex, and the simplices that have *)
(* all the vertices of the set T                                           *)
VertexSet(t) == {t[n] : n \in 1 .. Len(t)}
Owners(T) == {i \in 0 .. (getSimplicesNumber - 1) : T \subseteq VertexSet(simplices_[i + 1])}
FacesOf(i) == {T \in SUBSET VertexSet(simplices_[i + 1]) : Cardinality(T) = 3}

(* C19: on a valid 3D mesh whose simplices have four distinct vertices,    *)
(* without backface culling, draw3D keeps a face of a tetrahedron if and   *)
(* only if exactly one simplex contains its three vertices: such a face is *)
(* emitted once, a face of two simplices or more is never emitted, nothing *)
(* else is emitted, and at most 4 triangles per simplex are kept.          *)
C19_Thm ==
  (/\ last.op = "draw3D"
   /\ last.err = "none"
   /\ ~last.arg.backfaceCulling
   /\ dimension_ = 3
   /\ \A i \in 0 .. (getSimplicesNumber - 1) : Cardinality(VertexSet(simplices_[i + 1])) = 4)
    => LET e == last.ret.emitted
       IN /\ \A i \in 0 .. (getSimplicesNumber - 1) : \A T \in FacesOf(i) :
               Cardinality({k \in 1 .. Len(e) : VertexSet(e[k].second) = T})
                 = IF Cardinality(Owners(T)) = 1 THEN 1 ELSE 0
          /\ \A k \in 1 .. Len(e) :
               \E i \in 0 .. (getSimplicesNumber - 1) : VertexSet(e[k].second) \in FacesOf(i)
          /\ Len(e) <= 4 * getSimplicesNumber
          /\ DrawnFaces(last.ret) = Len(e)

(* draw3D ran without culling on two tetrahedra of different vertex sets   *)
(* that share a face, and kept the six other faces                         *)
C19_Witness ==
  /\ last.op = "draw3D"
  /\ last.err = "none"
  /\ ~last.arg.backfaceCulling
  /\ getSimplicesNumber = 2
  /\ VertexSet(simplices_[1]) # VertexSet(simplices_[2])
  /\ \E T \in FacesOf(0) : Cardinality(Owners(T)) = 2
  /\ Len(last.ret.emitted) = 6

(* C20: draw3D never fails because of the shrink factor: whatever rho, it  *)
(* returns a graph drawn with min(1, max(0, rho)); it logs the warning if  *)
(* and only if rho is outside [0, 1]; with the factor 1 every face is      *)
(* drawn at its projected vertices, with the factor 0 the three drawn      *)
(* vertices are the centroid of the face (numerators over 6 * VisuScale).  *)
C20_Thm ==
  last.op = "draw3D"
    => /\ last.err = "none"
       /\ last.ret.clippedRho2 =
            (IF last.arg.rho2 < 0 THEN 0 ELSE IF last.arg.rho2 > 2 THEN 2 ELSE last.arg.rho2)
       /\ last.ret.warned <=> (last.arg.rho2 < 0 \/ last.arg.rho2 > 2)
       /\ DrawnFaces(last.ret) = Len(last.ret.emitted)
       /\ \A k \in 1 .. Len(last.ret.emitted) :
            LET visu == VisuVertices(last.arg.rotation)
                t == last.ret.emitted[k].second
                drawn == DrawnFace(last.ret, k)
            IN /\ last.arg.rho2 >= 2
                    => \A n \in 1 .. 3 : \A c \in 1 .. 2 : drawn[n][c] = 6 * visu[t[n] + 1][c]
               /\ last.arg.rho2 <= 0
                    => \A n \in 1 .. 3 : \A c \in 1 .. 2 :
                         drawn[n][c] = 2 * (visu[t[1] + 1][c] + visu[t[2] + 1][c] + visu[t[3] + 1][c])

(* draw3D was given a factor above 1, logged the warning and drew, as one  *)
(* polygon array, a face that is not reduced to a point                    *)
C20_Witness ==
  /\ last.op = "draw3D"
  /\ last.err = "none"
  /\ last.arg.rho2 > 2
  /\ last.ret.warned
  /\ ~last.arg.drawEdge
  /\ Len(last.ret.emitted) > 0
  /\ DrawnFace(last.ret, 1)[1] # DrawnFace(last.ret, 1)[2]

(* C17: on a mesh of dimension greater than 3 every drawing entry point    *)
(* (draw, draw1D, draw2D, draw3D with angles or with a matrix) fails with  *)
(* InvalidArgument and produces no graph.                                  *)
C17_Claim ==
  (last.op \in {"draw", "draw1D", "draw2D", "draw3D"} /\ dimension_ > 3)
    => (last.err = "InvalidArgument" /\ last.ret = <<>>)
(* What the call c returns when no other call runs on the mesh: the       *)
(* complete tables of the current vertices and simplices are the ones it   *)
(* reads                                                                   *)
ReturnsAlone(c) ==
  LET map == BuildVerticesToSimplices(vertices_, simplices_)
      lowerBB == BuildLowerBoundingBox(dimension_, vertices_, simplices_)
      upperBB == BuildUpperBoundingBox(dimension_, vertices_, simplices_)
  IN CASE c.op = "contains" ->
            IF ~IntervalContains(getLowerBound, getUpperBound, c.point) THEN c.ret = "false"
            ELSE c.ret = ContainsScan(c.point, map[c.nearestIndex + 1], lowerBB, upperBB)
       [] c.op = "getNearestVertexAndSimplexIndicesWithCoordinates" ->
            c.ret = FirstContaining(c.point, map[c.nearestIndex + 1], lowerBB, upperBB)
       [] c.op = "computeWeights" ->
            c.ret = [v \in 1 .. getVerticesNumber |->
                       SeqSum([n \in 1 .. Len(map[v]) |-> computeSimplexVolume(map[v][n])])]
       [] c.op = "getNearestVertexIndex" -> c.ret \in NearestVertexIndices(c.point)
       [] c.op = "computeVolume" -> c.ret = MeshVolume
       [] c.op = "getVolume" -> c.ret = volume_

(* C21: once the incidence map, the bounding boxes and the memoized volume *)
(* are populated, a call of contains, getNearestVertexIndex,               *)
(* getNearestVertexAndSimplexIndicesWithCoordinates, computeVolume or      *)
(* getVolume that runs concurrently with another one assigns no member of  *)
(* the mesh and returns what it returns when run alone.                    *)
C21_Claim ==
  \A t \in DOMAIN calls :
    calls[t].populated =>
      /\ calls[t].wrote = {}
      /\ calls[t].pc = "done" => ReturnsAlone(calls[t])

(* C22: a query that needs the incidence map and returns something else    *)
(* than when run alone ran while another call was in flight and read an    *)
(* incidence cache that was allocated but not completely built; a query    *)
(* whose run overlaps no other call returns what it returns alone.         *)
C22_Thm ==
  \A t \in DOMAIN calls :
    (calls[t].pc = "done" /\ ~ReturnsAlone(calls[t]))
      => (calls[t].overlapped /\ calls[t].partial)

(* contains returns false for a point of a simplex after it read the      *)
(* bounding boxes another call had just set to their sentinel values       *)
C22_Witness ==
  \E t \in DOMAIN calls :
    /\ calls[t].pc = "done"
    /\ calls[t].op = "contains"
    /\ calls[t].ret = "false"
    /\ \E s \in 0 .. (getSimplicesNumber - 1) : SimplexContains(calls[t].point, s)
    /\ calls[t].partial
    /\ calls[t].overlapped
(* The number of entries of the first simplex up to the first one that   *)
(* repeats the entry before it                                             *)
LeadingEntries(simplex) ==
  SetMin({j \in 1 .. (Len(simplex) - 1) : simplex[j + 1] = simplex[j]} \cup {Len(simplex)})

(* What a call of streamToVTKFormat leaves when every cell lists k indices *)
ExportsCellsOf(k, types) ==
  last'.op = "streamToVTKFormat" =>
    /\ numericalPrecision' = numericalPrecision
    /\ dimension_ > 3 => (last'.err = "InvalidDimension" /\ last'.ret = <<>>)
    /\ dimension_ <= 3 =>
         /\ last'.err = "none"
         /\ last'.ret.precision = 16
         /\ getSimplicesNumber = 0 =>
              /\ last'.ret.cellsHeader = <<getVerticesNumber, 2 * getVerticesNumber>>
              /\ last'.ret.cells = [i \in 1 .. getVerticesNumber |-> <<1, i - 1>>]
              /\ last'.ret.cellTypes = [i \in 1 .. getVerticesNumber |-> 1]
         /\ getSimplicesNumber > 0 =>
              /\ last'.ret.cellsHeader = <<getSimplicesNumber, (k + 1) * getSimplicesNumber>>
              /\ Len(last'.ret.cells) = getSimplicesNumber
              /\ \A i \in 1 .. getSimplicesNumber :
                   /\ Len(last'.ret.cells[i]) = k + 1
                   /\ last'.ret.cells[i][1] = k
                   /\ \A j \in 1 .. k : last'.ret.cells[i][j + 1] = simplices_[i][j]
              /\ last'.ret.cellTypes = [i \in 1 .. getSimplicesNumber |-> types[k]]

C24_Claim ==
  last.op = "ImportFromMSHFile" =>
    /\ ~last.arg.exists => last.err = "FileNotFound"
    /\ (last.arg.exists /\ last.arg.tokens = <<>>) =>
         /\ last.err = "none"
         /\ last.ret.log = <<"File is empty">>
         /\ dimension_ = 1
         /\ vertices_ = DefaultVertices
         /\ simplices_ = <<>>

(* C25: getNearestVertexIndex(point), getNearestVertexIndex(sample) and    *)
(* getNearestVertexAndSimplexIndicesWithCoordinates called with a point or *)
(* sample of another dimension than the mesh fail with InvalidArgument,    *)
(* leaving every cache and the output coordinates untouched; the batched   *)
(* form on a sample of the right dimension returns one index per point, in *)
(* input order, each the result of the single-point call.                  *)
C25_Thm ==
  [][/\ (last'.op = "getNearestVertexIndex" /\ Len(last'.arg) # dimension_)
          => (last'.err = "InvalidArgument" /\ UNCHANGED mesh)
     /\ (last'.op = "getNearestVertexIndexSample" /\ last'.arg.dimension # dimension_)
          => (last'.err = "InvalidArgument" /\ UNCHANGED mesh)
     /\ (last'.op = "getNearestVertexAndSimplexIndicesWithCoordinates"
           /\ Len(last'.arg) # dimension_)
          => /\ last'.err = "InvalidArgument"
             /\ UNCHANGED mesh
             /\ last'.ret.coordinates = last'.pre.coordinates
     /\ (last'.op = "getNearestVertexIndexSample" /\ last'.arg.dimension = dimension_)
          => /\ last'.err = "none"
             /\ Len(last'.ret) = Len(last'.arg.data)
             /\ \A i \in 1 .. Len(last'.ret) :
                  BruteForceNearestIndices(vertices_, last'.arg.data[i]) = {last'.ret[i]}
    ]_vars

C25_Witness ==
  /\ last.op = "getNearestVertexIndexSample"
  /\ last.err = "none"
  /\ Len(last.ret) = 2
  /\ last.ret[1] > last.ret[2]
  /\ Len(verticesToSimplices_) > 0

(* C26: computeP1Gram returns a symmetric matrix whose only non-zero       *)
(* entries are indexed by two vertices of a common simplex and whose       *)
(* entries sum to the total volume of the mesh in every dimension; with no *)
(* simplex it returns the 0x0 matrix.  The entries are numerators over     *)
(* 2 * Gamma(dimension_ + 3) and the volumes numerators over 2.            *)
C26_Claim ==
  last.op = "computeP1Gram" =>
    IF simplices_ = <<>> THEN last.ret = <<>>
    ELSE /\ \A j, k \in 1 .. Len(last.ret) : last.ret[j][k] = last.ret[k][j]
         /\ \A j, k \in 1 .. Len(last.ret) :
              last.ret[j][k] # 0 =>
                \E i \in 1 .. Len(simplices_) :
                  \E a, b \in 1 .. Len(simplices_[i]) :
                    simplices_[i][a] = j - 1 /\ simplices_[i][b] = k - 1
         /\ SeqSum([j \in 1 .. Len(last.ret) |-> SeqSum(last.ret[j])])
              = Gamma(dimension_ + 3) * SumOfSimplexVolumes(dimension_, vertices_, simplices_)

(* The number of entries of list equal to x                                *)
CountOf(list, x) == Cardinality({n \in 1 .. Len(list) : list[n] = x})

(* The incidence map and the bounding boxes agree with the current mesh:   *)
(* one list per vertex, simplex s listed for vertex v once per entry of s  *)
(* equal to v, one row of each table per simplex; ordered(a, b) holds      *)
(* between consecutive entries of every list                               *)
IncidenceAgrees(ordered(_, _)) ==
  Len(verticesToSimplices_) > 0 =>
    /\ Len(verticesToSimplices_) = getVerticesNumber
    /\ \A v \in 1 .. Len(verticesToSimplices_) :
         /\ \A s \in 0 .. MaxSimplices :
              CountOf(verticesToSimplices_[v], s)
                = (IF s < getSimplicesNumber THEN CountOf(simplices_[s + 1], v - 1) ELSE 0)
         /\ \A n \in 1 .. (Len(verticesToSimplices_[v]) - 1) :
              ordered(verticesToSimplices_[v][n], verticesToSimplices_[v][n + 1])
    /\ Len(lowerBoundingBoxSimplices_) = getSimplicesNumber
    /\ Len(upperBoundingBoxSimplices_) = getSimplicesNumber

(* With no simplex the build gives empty lists and tables of no row        *)
EmptyBuild ==
  (last.op = "getVerticesToSimplicesMap" /\ simplices_ = <<>>) =>
    /\ last.err = "none"
    /\ Len(last.ret) = getVerticesNumber
    /\ \A v \in 1 .. Len(last.ret) : last.ret[v] = <<>>
    /\ lowerBoundingBoxSimplices_ = <<>>
    /\ upperBoundingBoxSimplices_ = <<>>

StrictlyBelow(a, b) == a < b
NotAbove(a, b) == a <= b

C28_Claim ==
  (/\ last.op \in {"checkPointInSimplex", "checkPointInSimplexWithCoordinates"}
   /\ last.arg.index >= getSimplicesNumber)
    => last.err = "InvalidArgument"

(* C29: whenever getNearestVertexIndex(point) returns normally, the index  *)
(* returned is strictly less than the current number of vertices, on every *)
(* mesh that can be constructed, a mesh of zero vertices included.         *)
C29_Claim ==
  (last.op = "getNearestVertexIndex" /\ last.err = "none") => last.ret < getVerticesNumber

====
